---- MODULE Spec2Model ----
(***************************************************************************)
(* Model of src/mcp_cog.py (class MCPCog): the per-server connection       *)
(* supervisors (_manage_mcp_connection), the shared registries             *)
(* (mcp_connections, mcp_tools), cog_load / cog_unload, and the tool       *)
(* router execute_tool, and the conversation engine (get_channel_history,  *)
(* _handle_chat_logic).                                                    *)
(*                                                                         *)
(* asyncio runs one coroutine at a time and switches only at an await, so  *)
(* every action below is the code between two suspension points of one     *)
(* task.  Every state of the model is therefore a state another task can   *)
(* observe.                                                                *)
(***************************************************************************)
EXTENDS Integers, Sequences, FiniteSets, TLC

VARIABLES
    config,            \* self.config['mcp']['server']: sequence of server names
    mcp_connections,   \* self.mcp_connections: dict in insertion order, <<name, client>>
    mcp_tools,         \* self.mcp_tools: dict in insertion order, <<name, tool list>>
    connection_tasks,  \* self._connection_tasks: server name -> task id (NoTask: no key)
    shutdown_event,    \* self._shutdown_event
    task,              \* the _manage_mcp_connection coroutines, by task id
    nextTask,          \* id the next asyncio.create_task gets
    cog,               \* where the cog is in its load/unload life cycle
    unload,            \* cog_unload's locals: the pending tasks, the one awaited
    call,              \* the execute_tool invocations in flight, by caller
    last,              \* the execute_tool call that returned last, and its result
    message_history,   \* self.message_history: channel id -> list object (NoList: no key)
    lists,             \* the history list objects, by object id
    turn,              \* the _handle_chat_logic coroutines, by caller
    started            \* how many turns have been started

chat == <<message_history, lists, turn, started>>

vars == <<config, mcp_connections, mcp_tools, connection_tasks, shutdown_event,
          task, nextTask, cog, unload, call, last, chat>>

registry == <<mcp_connections, mcp_tools>>

----------------------------------------------------------------------------
(* Bounds of the model *)

\* number of _manage_mcp_connection tasks ever created
MaxTasks == 4
\* consecutive failed attempts of one task, where the backoff is studied
MaxFailures == 8
\* consecutive failed attempts of one task, where the router is studied
MaxRetries == 1

(* Program constants *)

\* reconnect_delay = 15
InitialDelay == 15
\* max_reconnect_delay = 300
max_reconnect_delay == 300

Servers == {"s1", "s2"}
TaskIds == 1..MaxTasks
\* the conversation turns that may be inside execute_tool at the same time
Callers == {"c1", "c2"}
NoTask == 0
NoServer == "-"

\* Tool names the router is asked for: "ta" is listed by s1 alone, "tb" by
\* both servers, "tz" by none.
ToolNames == {"ta", "tb", "tz"}

\* What client.list_tools() returns for a server: the names of its ToolDefs
\* (s2 has a ToolDef without a name).
Catalog(name) == IF name = "s1" THEN <<"ta", "tb">> ELSE <<"", "tb">>

\* Optional values (None or a value) are sequences of length at most one.
None == <<>>
Some(v) == <<v>>

\* Python values carry their type: a str, an int, a bool, a dict (a record)
PyStr(text) == <<"str", text>>
PyInt(n) == <<"int", n>>
PyBool(b) == <<"bool", b>>
PyDict(d) == <<"dict", d>>

\* ToolInvocationResult values a provider may return.
ErrorCodes == {None, Some(0), Some(7)}
Contents == {None, Some(PyStr("")), Some(PyStr("x"))}

\* more shapes of content: text blocks with a str, an int or no text, an int,
\* a bool, a dict that is no text block
RichContents ==
    Contents \cup
      {Some(PyDict([type |-> "text", text |-> Some(PyStr("42"))])),
       Some(PyDict([type |-> "text", text |-> Some(PyInt(42))])),
       Some(PyDict([type |-> "text", text |-> None])),
       Some(PyInt(42)), Some(PyBool(TRUE)),
       Some(PyDict([type |-> "image"]))}

Min(a, b) == IF a < b THEN a ELSE b

RECURSIVE Pow2(_)
Pow2(n) == IF n = 0 THEN 1 ELSE 2 * Pow2(n - 1)

----------------------------------------------------------------------------
(* Python dicts keep insertion order: a dict is a sequence of <<key, value>> *)

Keys(d) == {d[i][1] : i \in 1..Len(d)}
Has(d, k) == k \in Keys(d)
IndexOf(d, k) == CHOOSE i \in 1..Len(d) : d[i][1] = k
Get(d, k) == d[IndexOf(d, k)][2]
\* d[k] = v: an existing key keeps its place, a new key goes last
Put(d, k, v) ==
    IF Has(d, k)
    THEN [i \in 1..Len(d) |-> IF d[i][1] = k THEN <<k, v>> ELSE d[i]]
    ELSE Append(d, <<k, v>>)
\* if k in d: del d[k]
Del(d, k) == SelectSeq(d, LAMBDA e : e[1] # k)

InList(l, x) == \E i \in 1..Len(l) : l[i] = x

----------------------------------------------------------------------------
(* _manage_mcp_connection *)

NewTask(name) ==
    [name |-> name, pc |-> "created", reconnect_delay |-> InitialDelay,
     fails |-> 0]

UnbornTask == [NewTask(NoServer) EXCEPT !.pc = "unborn"]

\* task.cancel() while the task is suspended in list_tools: CancelledError is
\* pending in it and takes it to the final cleanup; its locals are not read
\* again
Cancelled(t) == [task EXCEPT ![t] = [NewTask(task[t].name) EXCEPT !.pc = "cancelled"]]

\* the coroutine returned: its locals are gone
Finished(t) == [task EXCEPT ![t] = [NewTask(task[t].name) EXCEPT !.pc = "done"]]

\* variant: the doubling without the cap
NextDelayUncapped(d) == d * 2

\* reconnect_delay = min(reconnect_delay * 2, max_reconnect_delay)
NextDelay(d) == Min(d * 2, max_reconnect_delay)

\* variant: no reset on success
DelayOnSuccessKept(d) == d

\* reconnect_delay = 15 # Reset delay on success
DelayOnSuccess(d) == InitialDelay

\* task[t].fails (history) counts the failed attempts of the task

\* variant: the cleanup empties the dict
CleanupConnectionsAll(conns, name) == <<>>

\* variant: the cleanup leaves the tool list
CleanupToolsKept(tools, name) == tools

\* step 5 and the final cleanup: drop the entries keyed by the task's own name
CleanupConnections(conns, name) == Del(conns, name)
CleanupTools(tools, name) == Del(tools, name)

\* step 3: self.mcp_connections[name] = client; self.mcp_tools[name] = tools_list
\* (the client object is identified with the task that created it: a task
\* publishes at most once, since it leaves Ready only to terminate)
PublishConnections(conns, name, client) == Put(conns, name, client)
PublishTools(tools, name, tools_list) == Put(tools, name, tools_list)

\* One loop iteration from the loop head, the shutdown event not being set,
\* with the local reconnect_delay = d: MCPClient(url) either returns, and the
\* task suspends in list_tools, or raises, and the task cleans up and
\* suspends in the reconnect wait.  b bounds the consecutive failures.
Attempt(t, d, b) ==
    LET name == task[t].name IN
    \/ /\ task' = [task EXCEPT ![t].pc = "listing", ![t].reconnect_delay = d]
       /\ UNCHANGED registry
    \/ /\ task[t].fails < b
       /\ task' = [task EXCEPT ![t].pc = "backoff", ![t].reconnect_delay = d,
                               ![t].fails = @ + 1]
       /\ mcp_connections' = CleanupConnections(mcp_connections, name)
       /\ mcp_tools' = CleanupTools(mcp_tools, name)

\* The task runs for the first time.
SupStart(t, b) ==
    /\ task[t].pc = "created"
    /\ IF shutdown_event
       THEN /\ task' = Finished(t)
            /\ mcp_connections' = CleanupConnections(mcp_connections, task[t].name)
            /\ mcp_tools' = CleanupTools(mcp_tools, task[t].name)
       ELSE Attempt(t, InitialDelay, b)
    /\ UNCHANGED <<config, connection_tasks, shutdown_event, nextTask, cog, unload, call, last, chat>>

\* variant: the wait for the shutdown event suspends although the event is set
SupListOkSuspends(t) ==
    /\ task[t].pc = "listing"
    /\ task' = [task EXCEPT ![t].pc = "ready", ![t].reconnect_delay = InitialDelay]
    /\ mcp_connections' = Put(mcp_connections, task[t].name, t)
    /\ mcp_tools' = Put(mcp_tools, task[t].name, Catalog(task[t].name))
    /\ UNCHANGED <<config, connection_tasks, shutdown_event, nextTask, cog, unload, call, last, chat>>

\* list_tools returned: publish, reset the delay, wait for the shutdown event.
\* Event.wait() returns without suspending when the event is already set; the
\* task then runs through the cleanup and ends.
SupListOk(t) ==
    LET name == task[t].name
        conns == PublishConnections(mcp_connections, name, t)
        tools == PublishTools(mcp_tools, name, Catalog(name))
    IN
    /\ task[t].pc = "listing"
    /\ IF shutdown_event
       THEN /\ task' = Finished(t)
            /\ mcp_connections' = CleanupConnections(conns, name)
            /\ mcp_tools' = CleanupTools(tools, name)
       ELSE /\ task' = [task EXCEPT ![t].pc = "ready",
                                   ![t].reconnect_delay = DelayOnSuccess(@)]
            /\ mcp_connections' = conns
            /\ mcp_tools' = tools
    /\ UNCHANGED <<config, connection_tasks, shutdown_event, nextTask, cog, unload, call, last, chat>>

\* variant: a failed list_tools ends the task
SupListFailGivesUp(t, b) ==
    /\ task[t].pc = "listing"
    /\ task[t].fails < b
    /\ task' = Finished(t)
    /\ mcp_connections' = CleanupConnections(mcp_connections, task[t].name)
    /\ mcp_tools' = CleanupTools(mcp_tools, task[t].name)
    /\ UNCHANGED <<config, connection_tasks, shutdown_event, nextTask, cog, unload, call, last, chat>>

\* list_tools raised (ConnectError, ReadTimeout, the 45 s timeout, anything else)
SupListFail(t, b) ==
    /\ task[t].pc = "listing"
    /\ task[t].fails < b
    /\ task' = IF shutdown_event THEN Finished(t)
               ELSE [task EXCEPT ![t].pc = "backoff", ![t].fails = @ + 1]
    /\ mcp_connections' = CleanupConnections(mcp_connections, task[t].name)
    /\ mcp_tools' = CleanupTools(mcp_tools, task[t].name)
    /\ UNCHANGED <<config, connection_tasks, shutdown_event, nextTask, cog, unload, call, last, chat>>

\* except asyncio.CancelledError: break, then the final cleanup
SupListCancelled(t) ==
    /\ task[t].pc = "cancelled"
    /\ task' = Finished(t)
    /\ mcp_connections' = CleanupConnections(mcp_connections, task[t].name)
    /\ mcp_tools' = CleanupTools(mcp_tools, task[t].name)
    /\ UNCHANGED <<config, connection_tasks, shutdown_event, nextTask, cog, unload, call, last, chat>>

\* await self._shutdown_event.wait() returns: cleanup, the loop ends
SupReadyShutdown(t) ==
    /\ task[t].pc = "ready"
    /\ shutdown_event
    /\ task' = Finished(t)
    /\ mcp_connections' = CleanupConnections(mcp_connections, task[t].name)
    /\ mcp_tools' = CleanupTools(mcp_tools, task[t].name)
    /\ UNCHANGED <<config, connection_tasks, shutdown_event, nextTask, cog, unload, call, last, chat>>

\* the reconnect wait timed out: double the delay, next attempt
SupBackoffTimeout(t, b) ==
    /\ task[t].pc = "backoff"
    /\ ~shutdown_event
    /\ Attempt(t, NextDelay(task[t].reconnect_delay), b)
    /\ UNCHANGED <<config, connection_tasks, shutdown_event, nextTask, cog, unload, call, last, chat>>

\* variant: the reconnect wait is slept out and the next attempt made
SupBackoffShutdownSleepsOn(t) ==
    /\ task[t].pc = "backoff"
    /\ shutdown_event
    /\ Attempt(t, NextDelay(task[t].reconnect_delay), MaxFailures)
    /\ UNCHANGED <<config, connection_tasks, shutdown_event, nextTask, cog, unload, call, last, chat>>

\* the shutdown event ended the reconnect wait: break, then the final cleanup
SupBackoffShutdown(t) ==
    /\ task[t].pc = "backoff"
    /\ shutdown_event
    /\ task' = Finished(t)
    /\ mcp_connections' = CleanupConnections(mcp_connections, task[t].name)
    /\ mcp_tools' = CleanupTools(mcp_tools, task[t].name)
    /\ UNCHANGED <<config, connection_tasks, shutdown_event, nextTask, cog, unload, call, last, chat>>

SupervisorStep(t, b) ==
    \/ SupStart(t, b)
    \/ SupListOk(t)
    \/ SupListFail(t, b)
    \/ SupListCancelled(t)
    \/ SupReadyShutdown(t)
    \/ SupBackoffTimeout(t, b)
    \/ SupBackoffShutdown(t)

TaskDone(t) == task[t].pc \in {"done", "unborn"}

----------------------------------------------------------------------------
(* cog_load *)

\* variant: every configured name gets a new task
NeedsTaskAlways(name) == TRUE

\* the configured names that get a new task: no key in _connection_tasks, or
\* the task under the key is done
NeedsTask(name) ==
    \/ connection_tasks[name] = NoTask
    \/ task[connection_tasks[name]].pc = "done"

ToStart == SelectSeq(config, NeedsTask)

\* variant: the shutdown event is left as it is
CogLoadKeepsEvent ==
    /\ cog \in {"constructed", "loaded", "unloaded"}
    /\ nextTask + Len(ToStart) <= MaxTasks + 1
    /\ UNCHANGED shutdown_event
    /\ connection_tasks' =
         [n \in Servers |->
            IF \E i \in 1..Len(ToStart) : ToStart[i] = n
            THEN nextTask + (CHOOSE i \in 1..Len(ToStart) : ToStart[i] = n) - 1
            ELSE connection_tasks[n]]
    /\ task' = [t \in TaskIds |->
                  IF t >= nextTask /\ t < nextTask + Len(ToStart)
                  THEN NewTask(ToStart[t - nextTask + 1])
                  ELSE task[t]]
    /\ nextTask' = nextTask + Len(ToStart)
    /\ cog' = "loaded"
    /\ UNCHANGED <<config, mcp_connections, mcp_tools, unload, call, last, chat>>

CogLoad ==
    /\ cog \in {"constructed", "loaded", "unloaded"}
    /\ nextTask + Len(ToStart) <= MaxTasks + 1
    /\ shutdown_event' = FALSE
    /\ connection_tasks' =
         [n \in Servers |->
            IF \E i \in 1..Len(ToStart) : ToStart[i] = n
            THEN nextTask + (CHOOSE i \in 1..Len(ToStart) : ToStart[i] = n) - 1
            ELSE connection_tasks[n]]
    /\ task' = [t \in TaskIds |->
                  IF t >= nextTask /\ t < nextTask + Len(ToStart)
                  THEN NewTask(ToStart[t - nextTask + 1])
                  ELSE task[t]]
    /\ nextTask' = nextTask + Len(ToStart)
    /\ cog' = "loaded"
    /\ UNCHANGED <<config, mcp_connections, mcp_tools, unload, call, last, chat>>

----------------------------------------------------------------------------
(* cog_unload *)

NoUnload == [pending |-> {}, current |-> NoTask]

TasksInTable == {connection_tasks[n] : n \in Servers} \ {NoTask}

\* variant: the task table is left as it is
ClearAllKeepsTasks ==
    /\ mcp_connections' = <<>>
    /\ mcp_tools' = <<>>
    /\ cog' = "unloaded"
    /\ unload' = NoUnload
    /\ UNCHANGED connection_tasks

\* self.mcp_connections.clear(); self.mcp_tools.clear();
\* self._connection_tasks.clear(): no await between them
ClearAll ==
    /\ mcp_connections' = <<>>
    /\ mcp_tools' = <<>>
    /\ connection_tasks' = [n \in Servers |-> NoTask]
    /\ cog' = "unloaded"
    /\ unload' = NoUnload

\* from the entry to the first await: set the event, then wait for the tasks
\* (or, with no task in the table, clear at once)
UnloadBegin ==
    /\ cog = "loaded"
    /\ shutdown_event' = TRUE
    /\ IF TasksInTable = {}
       THEN ClearAll
       ELSE /\ cog' = "unload_grace"
            /\ unload' = [pending |-> TasksInTable, current |-> NoTask]
            /\ UNCHANGED <<mcp_connections, mcp_tools, connection_tasks>>
    /\ UNCHANGED <<config, task, nextTask, call, last, chat>>

\* asyncio.wait returned with every task done: pending is empty
UnloadGraceDone ==
    /\ cog = "unload_grace"
    /\ \A t \in unload.pending : TaskDone(t)
    /\ ClearAll
    /\ UNCHANGED <<config, shutdown_event, task, nextTask, call, last, chat>>

\* variant: the loop cancels a pending task whether it has ended or not
CancelLoopAny(live) ==
    IF unload.pending = {}
    THEN /\ ClearAll
         /\ UNCHANGED task
    ELSE \E p \in unload.pending :
           /\ task' = Cancelled(p)
           /\ unload' = [pending |-> unload.pending \ {p}, current |-> p]
           /\ cog' = "unload_cancel"
           /\ UNCHANGED <<mcp_connections, mcp_tools, connection_tasks>>

\* the for loop over pending, up to its next await: tasks that are done by
\* now are passed without suspending (cancel() of a done task does nothing and
\* wait_for of it returns at once); the first live one is cancelled and
\* awaited; with none left the registries are cleared and cog_unload returns
CancelLoop(live) ==
    IF live = {}
    THEN /\ ClearAll
         /\ UNCHANGED task
    ELSE \E p \in live :
           /\ task' = Cancelled(p)
           /\ unload' = [pending |-> live \ {p}, current |-> p]
           /\ cog' = "unload_cancel"
           /\ UNCHANGED <<mcp_connections, mcp_tools, connection_tasks>>

\* the 15 s grace period ran out.  A task waiting in Ready or in the
\* reconnect wait is woken by the event and a created task is scheduled: they
\* run before 15 s pass, so the tasks still pending are suspended in
\* list_tools.
UnloadGraceTimeout ==
    LET live == {t \in unload.pending : ~TaskDone(t)} IN
    /\ cog = "unload_grace"
    /\ live # {}
    /\ \A t \in live : task[t].pc = "listing"
    /\ CancelLoop(live)
    /\ UNCHANGED <<config, shutdown_event, nextTask, call, last, chat>>

\* await asyncio.wait_for(task, timeout=1.0) returned, or raised the task's
\* CancelledError: the task ended within the second
UnloadCancelDone ==
    /\ cog = "unload_cancel"
    /\ TaskDone(unload.current)
    /\ CancelLoop({t \in unload.pending : ~TaskDone(t)})
    /\ UNCHANGED <<config, shutdown_event, nextTask, call, last, chat>>

\* ... or raised TimeoutError: the task had not ended when the second was
\* over.  asyncio.wait_for then cancels the awaited task and returns only when
\* that task has ended, so cog_unload goes on with the task ended here too.
UnloadCancelTimeout ==
    /\ cog = "unload_cancel"
    /\ TaskDone(unload.current)
    /\ CancelLoop({t \in unload.pending : ~TaskDone(t)})
    /\ UNCHANGED <<config, shutdown_event, nextTask, call, last, chat>>

----------------------------------------------------------------------------
(* execute_tool *)

NoResult == [kind |-> "none", code |-> None, content |-> None]
\* {'error': ...}: one kind for each message execute_tool builds
ErrorDict(kind) == [kind |-> kind, code |-> None, content |-> None]

\* the locals of one execute_tool call: tool_name, server_name_found,
\* mcp_client, and (history) how often it has called invoke_tool
NewCall ==
    [pc |-> "idle", tool |-> "-", server |-> NoServer, client |-> NoTask,
     invokes |-> 0]

\* history: the call that returned last.  outcome is how its await of
\* invoke_tool ended ("unresolved": it never got there), response the
\* ToolInvocationResult the provider returned, result what execute_tool returned
NoLast ==
    [tool |-> "-", server |-> NoServer, client |-> NoTask,
     invokes |-> 0, outcome |-> "none", response |-> NoResult,
     result |-> NoResult]

\* any(tool.name == tool_name for tool in self.mcp_tools[server_name])
Lists(tools, name, tool_name) ==
    Has(tools, name) /\ InList(Get(tools, name), tool_name)

\* variant: the loop without its break, so that the last match wins
ResolveLast(conns, tools, tool_name) ==
    LET hits == {i \in 1..Len(conns) : Lists(tools, conns[i][1], tool_name)} IN
    IF hits = {} THEN 0 ELSE CHOOSE i \in hits : \A j \in hits : i >= j

\* the for loop over self.mcp_connections.items(): the index of the first
\* connected server that lists the tool, 0 when there is none
Resolve(conns, tools, tool_name) ==
    LET hits == {i \in 1..Len(conns) : Lists(tools, conns[i][1], tool_name)} IN
    IF hits = {} THEN 0 ELSE CHOOSE i \in hits : \A j \in hits : i <= j

\* the for loop over self.mcp_tools.items(): tool_server_origin
ToolServerOrigin(tools, tool_name) ==
    LET hits == {i \in 1..Len(tools) : InList(tools[i][2], tool_name)} IN
    IF hits = {} THEN NoServer
    ELSE tools[CHOOSE i \in hits : \A j \in hits : i <= j][1]

\* what execute_tool returns when no connected server lists the tool
Unresolved(conns, tools, tool_name) ==
    LET origin == ToolServerOrigin(tools, tool_name) IN
    IF conns = <<>> THEN ErrorDict("NoServersConnected")
    ELSE IF origin # NoServer /\ ~Has(conns, origin) THEN ErrorDict("Unavailable")
    ELSE IF origin # NoServer THEN ErrorDict("ClientMismatch")
    ELSE ErrorDict("NotFound")

\* from the entry to the await of invoke_tool, or to the return when the
\* resolution fails
ExecuteTool(c, tool_name) ==
    LET i == Resolve(mcp_connections, mcp_tools, tool_name) IN
    /\ call[c].pc = "idle"
    /\ IF i = 0
       THEN /\ last' = [NoLast EXCEPT !.tool = tool_name,
                           !.outcome = "unresolved",
                           !.result = Unresolved(mcp_connections, mcp_tools, tool_name)]
            /\ UNCHANGED call
       ELSE /\ call' = [call EXCEPT ![c] =
                           [pc |-> "invoking", tool |-> tool_name,
                            server |-> mcp_connections[i][1],
                            client |-> mcp_connections[i][2],
                            invokes |-> 1]]
            /\ UNCHANGED last
    /\ UNCHANGED <<config, mcp_connections, mcp_tools, connection_tasks,
                   shutdown_event, task, nextTask, cog, unload>>

\* how the await of invoke_tool ends: with a ToolInvocationResult, with
\* asyncio.TimeoutError, with one of the connection errors, with anything else
Outcomes == {"Returned", "Timeout", "ConnectionFault", "Unexpected"}

ToolInvocationResult(e, x) ==
    [kind |-> "ToolInvocationResult", code |-> e, content |-> x]

Responses == {ToolInvocationResult(e, x) : e \in ErrorCodes, x \in Contents}

\* one success and one error reported by the tool
SomeResponses == {ToolInvocationResult(Some(0), Some(PyStr("x"))),
                  ToolInvocationResult(Some(7), Some(PyStr("x")))}

\* every error code with every shape of content
RichResponses == {ToolInvocationResult(e, x) : e \in ErrorCodes, x \in RichContents}

\* the ways the await of invoke_tool may end, the provider answering from R
Completions(R) ==
    {<<"Returned", r>> : r \in R}
      \cup {<<o, NoResult>> : o \in Outcomes \ {"Returned"}}

\* if result.content: (None, the empty string, 0, False and {} are falsy)
Truthy(content) ==
    /\ content # None
    /\ content[1] \notin {PyStr(""), PyInt(0), PyBool(FALSE)}

\* variant: only None counts as success, error_code 0 is reported as an error
ReturnedZeroIsError(r) ==
    IF r.code # None
    THEN [kind |-> "ToolReportedError", code |-> r.code,
          content |-> IF Truthy(r.content) THEN r.content ELSE None]
    ELSE r

\* the code after invoke_tool returned the ToolInvocationResult r
Returned(r) ==
    IF r.code # None /\ r.code # Some(0)
    THEN [kind |-> "ToolReportedError", code |-> r.code,
          content |-> IF Truthy(r.content) THEN r.content ELSE None]
    ELSE r

\* variant: without the last handler, except Exception, what is neither a
\* timeout nor a connection error leaves execute_tool as an exception
ResultOfNoCatchAll(outcome, r) ==
    CASE outcome = "Returned" -> Returned(r)
      [] outcome = "Timeout" -> ErrorDict("Timeout")
      [] outcome = "ConnectionFault" -> ErrorDict("ConnectionError")
      [] OTHER -> [kind |-> "raised", code |-> None, content |-> None]

\* what execute_tool returns for each way the await of invoke_tool ends
ResultOf(outcome, r) ==
    CASE outcome = "Returned" -> Returned(r)
      [] outcome = "Timeout" -> ErrorDict("Timeout")
      [] outcome = "ConnectionFault" -> ErrorDict("ConnectionError")
      [] OTHER -> ErrorDict("UnexpectedError")

\* variant: the connection error handler clears the dict
ConnectionsAfterCleared(outcome, conns, server) ==
    IF outcome = "ConnectionFault" THEN <<>> ELSE conns
\* variant: the timeout handler drops the client as well
ConnectionsAfterTimeoutEvicts(outcome, conns, server) ==
    IF outcome \in {"ConnectionFault", "Timeout"} THEN Del(conns, server) ELSE conns
\* variant: the connection error handler leaves the tool set
ToolsAfterKept(outcome, tools, server) == tools

\* the registries after each way the await of invoke_tool ends: only the
\* handler of the connection errors deletes, and it deletes the entries under
\* server_name_found
ConnectionsAfter(outcome, conns, server) ==
    IF outcome = "ConnectionFault" THEN Del(conns, server) ELSE conns
ToolsAfter(outcome, tools, server) ==
    IF outcome = "ConnectionFault" THEN Del(tools, server) ELSE tools

\* variant: a timed-out invocation is tried again
ExecFinishRetry(c, outcome, r) ==
    /\ call[c].pc = "invoking"
    /\ IF outcome = "Timeout" /\ call[c].invokes < 2
       THEN /\ call' = [call EXCEPT ![c].invokes = @ + 1]
            /\ UNCHANGED <<last, mcp_connections, mcp_tools>>
       ELSE /\ call' = [call EXCEPT ![c] = NewCall]
            /\ last' = [tool |-> call[c].tool, server |-> call[c].server,
                        client |-> call[c].client, invokes |-> call[c].invokes,
                        outcome |-> outcome,
                        response |-> IF outcome = "Returned" THEN r ELSE NoResult,
                        result |-> ResultOf(outcome, r)]
            /\ mcp_connections' = ConnectionsAfter(outcome, mcp_connections, call[c].server)
            /\ mcp_tools' = ToolsAfter(outcome, mcp_tools, call[c].server)
    /\ UNCHANGED <<config, connection_tasks, shutdown_event, task, nextTask,
                   cog, unload>>

\* the await of invoke_tool ends and execute_tool returns
ExecFinish(c, outcome, r) ==
    /\ call[c].pc = "invoking"
    /\ call' = [call EXCEPT ![c] = NewCall]
    /\ last' = [tool |-> call[c].tool, server |-> call[c].server,
                client |-> call[c].client, invokes |-> call[c].invokes,
                outcome |-> outcome,
                response |-> IF outcome = "Returned" THEN r ELSE NoResult,
                result |-> ResultOf(outcome, r)]
    /\ mcp_connections' = ConnectionsAfter(outcome, mcp_connections, call[c].server)
    /\ mcp_tools' = ToolsAfter(outcome, mcp_tools, call[c].server)
    /\ UNCHANGED <<config, connection_tasks, shutdown_event, task, nextTask,
                   cog, unload>>

----------------------------------------------------------------------------
(* get_channel_history *)

\* turns ever started, where concurrent turns are studied
MaxTurns == 2
\* turns ever started, where the tool calls of a turn are studied
MaxToolTurns == 1
\* self.config['max_history_length']: the cap N on the entries after the
\* system message
max_history_len == 2
\* chunks of one streamed answer
MaxChunks == 3
\* conversation turns started, where the streamed answer is studied
MaxStreamTurns == 1

Channels == {"ch1", "ch2"}
\* a list object is named after the turn whose history read created it
ListIds == 1..MaxTurns
NoList == 0
NoChannel == "-"

\* A history entry.  turn is the turn that appended it (0: the system
\* message), content the text or the formatted tool result, calls the ids of
\* the assistant message's tool_calls, tool_call_id and name those of a tool
\* entry.
Message(role, t, content, calls, id, name) ==
    [role |-> role, turn |-> t, content |-> content, calls |-> calls,
     tool_call_id |-> id, name |-> name]

\* {'role': 'system', 'content': self.system_message}
SystemMessage == Message("system", 0, <<"text", "system_message">>, <<>>, "-", "-")
\* {'role': 'user', 'content': message}
UserMessage(t) == Message("user", t, <<"text", "message">>, <<>>, "-", "-")

\* amount_to_remove = current_len - target_len, 0 when the list is short enough
AmountToRemove(h) ==
    IF Len(h) > max_history_len + 1 THEN Len(h) - (max_history_len + 1) ELSE 0

\* variant: the slice starts one entry early
TrimmedOffByOne(h) == <<h[1]>> \o SubSeq(h, AmountToRemove(h) + 1, Len(h))

\* [history[0]] + history[amount_to_remove + 1:]
Trimmed(h) == <<h[1]>> \o SubSeq(h, AmountToRemove(h) + 2, Len(h))

\* variant: the new entry goes in front
AppendedFirst(h, m) == <<m>> \o h

\* list.append
Appended(h, m) == Append(h, m)

\* the list objects some channel or some turn in flight refers to; the others
\* are garbage and are collected
Referenced(mh, tr) ==
    {mh[ch] : ch \in Channels} \cup {tr[c].channel_history : c \in Callers}

Collect(l, mh, tr) ==
    [i \in ListIds |-> IF i \in Referenced(mh, tr) THEN l[i] ELSE <<>>]

\* the list stored under a channel id
Stored(ch) == lists[message_history[ch]]

----------------------------------------------------------------------------
(* _handle_chat_logic *)

\* the variables of the supervisors and of the cog
server == <<config, mcp_connections, mcp_tools, connection_tasks,
            shutdown_event, task, nextTask, cog, unload>>

NoContent == <<"-", "-">>

\* parameters that are not built yet
NoParams == [stream |-> "-"]

\* {**self.llm_chat_params, 'stream': stream}: the model setting and the
\* transport mode, which both chat commands give as False
BaseParams(stream) == [model |-> "local-model", stream |-> stream]

\* dict.pop(k, None)
Pop(d, k) == [x \in DOMAIN d \ {k} |-> d[x]]

\* the entry format_tools_for_openai builds for a ToolDef
OpenAITool(name) == [type |-> "function", name |-> name]

\* variant: a ToolDef without a name gets an entry as well
ServerToolsAll(tools, name) ==
    IF ~Has(tools, name) THEN <<>>
    ELSE [i \in 1..Len(Get(tools, name)) |-> OpenAITool(Get(tools, name)[i])]

\* The part of format_tools_for_openai for one server: nothing when the
\* server has no tool list, else an entry for each ToolDef that has a name.
ServerTools(tools, name) ==
    IF ~Has(tools, name) THEN <<>>
    ELSE LET named == SelectSeq(Get(tools, name), LAMBDA n : n # "")
         IN  [i \in 1..Len(named) |-> OpenAITool(named[i])]

\* format_tools_for_openai: the servers of mcp_connections in the order of
\* its keys, their tools in the order of their lists
RECURSIVE FormatToolsForOpenAI(_, _)
FormatToolsForOpenAI(conns, tools) ==
    IF conns = <<>> THEN <<>>
    ELSE ServerTools(tools, conns[1][1]) \o FormatToolsForOpenAI(Tail(conns), tools)

\* chat_params: tools and tool_choice are set when there are tools
ChatParams(stream, openai_tools) ==
    IF openai_tools # <<>>
    THEN [k \in DOMAIN BaseParams(stream) \cup {"tools", "tool_choice"} |->
            IF k = "tools" THEN openai_tools
            ELSE IF k = "tool_choice" THEN "auto"
            ELSE BaseParams(stream)[k]]
    ELSE BaseParams(stream)

\* variant: the follow-up call is made with the parameters of the first call
FollowUpParamsOfFirstCall(chat_params) == chat_params

\* follow_up_params, chat_params being the parameters of the first call: built
\* anew from self.llm_chat_params and the turn's stream argument, tools and
\* tool_choice popped
FollowUpParams(chat_params) ==
    Pop(Pop(BaseParams(chat_params.stream), "tools"), "tool_choice")

\* the locals of one _handle_chat_logic call: channel_id, channel_history (the
\* list object it got from get_channel_history), the assistant content, the
\* finalized tool_calls_aggregated, the position of the for loop over them,
\* tool_results_for_history, the content of the entry being built; serial
\* numbers the turn, removed is what its history read trimmed, why is the
\* reason of an early return; chat_params and follow_up_params are the
\* keyword arguments of the first and of the follow-up call of
\* chat.completions.create, backend_calls counts the calls the turn has made;
\* current_tool_calls is the slot table of a streamed answer and deltas are
\* the chunks of it that arrived
NewTurn ==
    [pc |-> "idle", channel |-> NoChannel, serial |-> 0,
     channel_history |-> NoList, removed |-> 0, content |-> "",
     calls |-> <<>>, idx |-> 0, results |-> <<>>, cur |-> NoContent,
     why |-> "-", chat_params |-> NoParams, follow_up_params |-> NoParams,
     backend_calls |-> 0, current_tool_calls |-> <<>>, deltas |-> <<>>]

\* str.strip() of the texts the backend answers with
Strip(text) == IF text = " " THEN "" ELSE text

\* the texts of a backend answer: none, blank, some
Texts == {"", " ", "hi"}

ToolCall(id, name, arguments) ==
    [id |-> id, name |-> name, arguments |-> arguments]

\* name and arguments of the tool calls the backend asks for: a listed tool
\* with an object, a listed tool with broken JSON, a listed tool with a JSON
\* array, a call without a name
Requests == {<<"ta", "{}">>, <<"tb", "{">>, <<"ta", "[]">>, <<"", "{}">>}

\* response_message.tool_calls: up to two calls, with their ids
RawToolCalls ==
    {<<>>}
      \cup {<<ToolCall("id1", a[1], a[2])>> : a \in Requests}
      \cup {<<ToolCall("id1", a[1], a[2]), ToolCall("id2", b[1], b[2])>> :
              a \in Requests, b \in Requests}

\* tool_calls_aggregated: the calls with an id and a name
Finalized(raw) == SelectSeq(raw, LAMBDA tc : tc.id # "" /\ tc.name # "")

\* A chunk of a streamed answer: delta.content and delta.tool_calls, whose
\* elements carry a slot index, an id and the function's name and arguments
\* (absent ones are empty).
Fragment(index, id, name, arguments) ==
    [index |-> index, id |-> id, name |-> name, arguments |-> arguments]

Delta(content, tool_calls) == [content |-> content, tool_calls |-> tool_calls]

\* the chunks a stream is made of: text; the first half of a call in slot 0;
\* its second half, with another id; a whole call in slot 2; a name without
\* id for slot 1 together with more arguments for slot 0; an id without name
\* for slot 1
Deltas ==
    {Delta("hi", <<>>),
     Delta("", <<Fragment(0, "id1", "t", "{")>>),
     Delta("", <<Fragment(0, "id9", "a", "}")>>),
     Delta("", <<Fragment(2, "id2", "tb", "{}")>>),
     Delta("", <<Fragment(1, "", "x", ""), Fragment(0, "", "", "}")>>),
     Delta("", <<Fragment(1, "id3", "", "[]")>>)}

\* {'id': None, 'type': 'function', 'function': {'name': '', 'arguments': ''}}
\* (None and '' alike count as no id)
EmptySlot == ToolCall("", "", "")

\* while len(current_tool_calls) <= idx: current_tool_calls.append(...)
RECURSIVE Grown(_, _)
Grown(slots, idx) ==
    IF Len(slots) <= idx THEN Grown(Append(slots, EmptySlot), idx) ELSE slots

\* variant: a fragment's name replaces the name of the slot
MergedNameReplaced(slot, f) ==
    ToolCall(IF f.id # "" THEN f.id ELSE slot.id,
             IF f.name # "" THEN f.name ELSE slot.name,
             slot.arguments \o f.arguments)

\* what a fragment does to its slot: its id replaces the slot's, its name and
\* arguments are added at the end of the slot's
Merged(slot, f) ==
    ToolCall(IF f.id # "" THEN f.id ELSE slot.id,
             slot.name \o f.name,
             slot.arguments \o f.arguments)

\* the for loop over delta.tool_calls
RECURSIVE Aggregated(_, _)
Aggregated(slots, fs) ==
    IF fs = <<>> THEN slots
    ELSE LET f == Head(fs)
             g == Grown(slots, f.index)
         IN  Aggregated([g EXCEPT ![f.index + 1] = Merged(@, f)], Tail(fs))

\* json.loads: the type of what the text parses to, JSONDecodeError for a
\* text that is no JSON
JsonLoads(text) ==
    CASE text = "{}" -> "dict"
      [] text = "[]" -> "list"
      [] OTHER -> "JSONDecodeError"

\* variant: whatever parses is taken for the arguments
ParsesToAnything(arguments) == JsonLoads(arguments) # "JSONDecodeError"

\* json.loads(arguments_str) returns, and what it returns is a dict
ParsesToObject(arguments) == JsonLoads(arguments) = "dict"

\* how the first await of chat.completions.create ends
Replies ==
    {[kind |-> "error", content |-> "", tool_calls |-> <<>>],
     [kind |-> "empty", content |-> "", tool_calls |-> <<>>]}
      \cup {[kind |-> "message", content |-> x, tool_calls |-> raw] :
              x \in Texts, raw \in RawToolCalls}

\* a failure, a text, and two tool calls of which the second has broken JSON
SomeReplies ==
    {[kind |-> "error", content |-> "", tool_calls |-> <<>>],
     [kind |-> "message", content |-> "hi", tool_calls |-> <<>>],
     [kind |-> "message", content |-> "",
      tool_calls |-> <<ToolCall("id1", "ta", "{}"), ToolCall("id2", "tb", "{")>>]}

\* a failure, a text, and a tool call with broken JSON, which is answered
\* without execute_tool
FaultReplies ==
    {[kind |-> "error", content |-> "", tool_calls |-> <<>>],
     [kind |-> "message", content |-> "hi", tool_calls |-> <<>>],
     [kind |-> "message", content |-> "", tool_calls |-> <<ToolCall("id1", "tb", "{")>>]}

\* a failure and a text
TextReplies ==
    {[kind |-> "error", content |-> "", tool_calls |-> <<>>],
     [kind |-> "message", content |-> "hi", tool_calls |-> <<>>]}

\* an answer with text that asks for "ta"
OneToolCall ==
    {[kind |-> "message", content |-> "hi",
      tool_calls |-> <<ToolCall("id1", "ta", "{}")>>]}

\* how the follow-up await ends: it may ask for a tool call as well
FollowUps ==
    {[kind |-> "error", content |-> "", tool_calls |-> <<>>]}
      \cup {[kind |-> "message", content |-> x, tool_calls |-> raw] :
              x \in Texts, raw \in {<<>>, <<ToolCall("id3", "ta", "{}")>>}}

SomeFollowUps ==
    {[kind |-> "error", content |-> "", tool_calls |-> <<>>],
     [kind |-> "message", content |-> "hi", tool_calls |-> <<>>]}

Ids(calls) == [i \in 1..Len(calls) |-> calls[i].id]

AssistantMessage(t, content, calls) ==
    Message("assistant", t, <<"text", content>>, Ids(calls), "-", "-")

\* variant: the entry does not carry the id of its call
ToolMessageNoId(t, tc, content) ==
    Message("tool", t, content, <<>>, "-", tc.name)

\* {'role': 'tool', 'tool_call_id': ..., 'name': ..., 'content': ...}
ToolMessage(t, tc, content) ==
    Message("tool", t, content, <<>>, tc.id, tc.name)

\* f'Error: Invalid JSON object arguments provided for tool ...'
InvalidArguments == <<"Error", "InvalidArguments">>

\* str() of a str, an int or a bool
Str(v) ==
    CASE v[1] = "str" -> v[2]
      [] v[1] = "int" -> ToString(v[2])
      [] v[1] = "bool" -> IF v[2] THEN "True" ELSE "False"

\* isinstance(content, dict) and content.get('type') == 'text' and 'text' in content
IsTextBlock(content) ==
    /\ content[1] = "dict"
    /\ "type" \in DOMAIN content[2]
    /\ content[2].type = "text"
    /\ "text" \in DOMAIN content[2]

\* variant: a text block is formatted like any other dict
FormatContentNoTextBlock(content) ==
    IF content[1] \in {"str", "int", "bool"} THEN Str(content)
    ELSE "json.dumps(content, indent=2)"

\* the string for a content that is not None: the text of a text block ('' if
\* it is None), str() of a str, int or bool, the JSON text of another dict
FormatContent(content) ==
    IF IsTextBlock(content)
    THEN IF content[2].text # None THEN Str(content[2].text[1]) ELSE ""
    ELSE IF content[1] \in {"str", "int", "bool"} THEN Str(content)
    ELSE "json.dumps(content, indent=2)"

NoContentSentence == "Tool executed successfully but returned no content."

\* format_calltoolresult_content: the string for the content of a
\* ToolInvocationResult, the fixed sentence when it has no content, and
\* 'Tool Error: ' before the text of an error dict.  The result is a pair: what
\* the string starts with ("text": nothing) and the rest.
FormatCallToolResult(result) ==
    IF result.kind = "ToolInvocationResult"
    THEN IF result.content = None THEN <<"text", NoContentSentence>>
         ELSE <<"text", FormatContent(result.content[1])>>
    ELSE <<"Tool Error", result.kind>>

\* get_channel_history for a channel that has a list h: the list it returns
GetChannelHistory(h) == IF AmountToRemove(h) > 0 THEN Trimmed(h) ELSE h

\* From the entry to the first await of chat.completions.create: the history
\* read (a new list for a new channel, and a new list when the stored one is
\* trimmed), the append of the user message, format_tools_for_openai (which
\* never suspends).  m bounds the turns started.
TurnStart(c, ch, m, stream) ==
    LET t == started + 1
        absent == message_history[ch] = NoList
        h == IF absent THEN <<SystemMessage>> ELSE GetChannelHistory(Stored(ch))
        removed == IF absent THEN 0 ELSE AmountToRemove(Stored(ch))
        id == IF absent \/ removed > 0 THEN t ELSE message_history[ch]
    IN
    /\ turn[c].pc = "idle"
    /\ started < m
    /\ started' = t
    /\ message_history' = [message_history EXCEPT ![ch] = id]
    /\ turn' = [turn EXCEPT ![c] =
                  [NewTurn EXCEPT !.pc = "llm", !.channel = ch, !.serial = t,
                                  !.channel_history = id, !.removed = removed,
                                  !.chat_params = ChatParams(stream,
                                      FormatToolsForOpenAI(mcp_connections, mcp_tools)),
                                  !.backend_calls = 1]]
    /\ lists' = Collect([lists EXCEPT ![id] = Appended(h, UserMessage(t))],
                        message_history', turn')
    /\ UNCHANGED <<server, call, last>>

\* return: the locals are gone
Return(c, l) ==
    /\ turn' = [turn EXCEPT ![c] = NewTurn]
    /\ lists' = Collect(l, message_history, turn')

\* an early return: the message that explains it is sent first
Abort(c, why) ==
    /\ turn' = [turn EXCEPT ![c].pc = "ending", ![c].why = why]
    /\ UNCHANGED lists

\* The for loop over tool_calls_aggregated from its head to the next await,
\* tr being the locals there: arguments that are no JSON object take it to
\* the send of the complaint; execute_tool takes it to the await of
\* invoke_tool or, when the tool does not resolve, returns and the result is
\* sent.
StartCall(c, tr) ==
    LET tc == tr.calls[tr.idx] IN
    IF ~ParsesToObject(tc.arguments)
    THEN /\ turn' = [turn EXCEPT ![c] =
                       [tr EXCEPT !.pc = "tool_send", !.cur = InvalidArguments]]
         /\ UNCHANGED <<server, call, last>>
    ELSE /\ ExecuteTool(c, tc.name)
         /\ turn' = [turn EXCEPT ![c] =
                       IF call'[c].pc = "invoking"
                       THEN [tr EXCEPT !.pc = "tool_exec"]
                       ELSE [tr EXCEPT !.pc = "tool_send",
                                       !.cur = FormatCallToolResult(last'.result)]]

\* variant: an assistant message without text is not kept
CarriesContent(content, calls) == content # ""

\* assistant_message_dict.get('content') or assistant_message_dict.get('tool_calls')
Carries(content, calls) == content # "" \/ calls # <<>>

\* After the initial response was sent (or was blank): the assistant message
\* is appended when it has content or tool calls, and the tool calls are
\* taken up; with neither, the default answer is sent and the turn returns.
AfterInitial(c, tr) ==
    LET l == [lists EXCEPT ![tr.channel_history] =
                Appended(@, AssistantMessage(tr.serial, tr.content, tr.calls))]
    IN
    IF ~Carries(tr.content, tr.calls)
    THEN /\ turn' = [turn EXCEPT ![c] = [tr EXCEPT !.pc = "ending", !.why = "nothing"]]
         /\ UNCHANGED <<lists, server, call, last>>
    ELSE IF tr.calls = <<>>
    THEN /\ Return(c, l)
         /\ UNCHANGED <<server, call, last>>
    ELSE /\ lists' = l
         /\ StartCall(c, [tr EXCEPT !.idx = 1])

\* the first await of chat.completions.create ends, the transport being
\* non-streaming
LlmReturns(c, reply) ==
    /\ turn[c].pc = "llm"
    /\ turn[c].chat_params.stream = "False"
    /\ CASE reply.kind = "error" ->
              Abort(c, "llm_error") /\ UNCHANGED <<server, call, last>>
         [] reply.kind = "empty" ->
              Abort(c, "empty") /\ UNCHANGED <<server, call, last>>
         [] OTHER ->
              LET tr == [turn[c] EXCEPT !.calls = Finalized(reply.tool_calls)] IN
              IF Strip(reply.content) # ""
              THEN /\ turn' = [turn EXCEPT ![c] =
                                 [tr EXCEPT !.pc = "initial_send",
                                            !.content = reply.content]]
                   /\ UNCHANGED <<lists, server, call, last>>
              ELSE AfterInitial(c, tr)
    /\ UNCHANGED <<message_history, started>>

\* the first await of chat.completions.create ends, the transport being
\* streaming: the stream is there
StreamOpens(c) ==
    /\ turn[c].pc = "llm"
    /\ turn[c].chat_params.stream = "True"
    /\ turn' = [turn EXCEPT ![c].pc = "streaming"]
    /\ UNCHANGED <<message_history, lists, started, server, call, last>>

\* a chunk arrives: its text is added to the content, its tool call fragments
\* to their slots.  m bounds the chunks of a stream.
StreamChunk(c, delta, m) ==
    /\ turn[c].pc = "streaming"
    /\ Len(turn[c].deltas) < m
    /\ turn' = [turn EXCEPT ![c].content = @ \o delta.content,
                            ![c].current_tool_calls = Aggregated(@, delta.tool_calls),
                            ![c].deltas = Append(@, delta)]
    /\ UNCHANGED <<message_history, lists, started, server, call, last>>

\* the stream ends: the slots with an id and a name are the tool calls, and
\* the turn goes on as it does after a non-streamed answer (the slot table
\* and the chunks are not looked at again)
StreamEnds(c) ==
    /\ turn[c].pc = "streaming"
    /\ LET tr == [turn[c] EXCEPT !.calls = Finalized(turn[c].current_tool_calls),
                                 !.current_tool_calls = <<>>, !.deltas = <<>>] IN
       IF Strip(tr.content) # ""
       THEN /\ turn' = [turn EXCEPT ![c] = [tr EXCEPT !.pc = "initial_send"]]
            /\ UNCHANGED <<lists, server, call, last>>
       ELSE AfterInitial(c, [tr EXCEPT !.content = ""])
    /\ UNCHANGED <<message_history, started>>

\* the await of the stream, or the iteration over it, raises
StreamFails(c) ==
    /\ turn[c].pc \in {"llm", "streaming"}
    /\ turn[c].chat_params.stream = "True"
    /\ Abort(c, "llm_error")
    /\ UNCHANGED <<message_history, started, server, call, last>>

\* send_long_message(sendable, initial_response_content) returned
InitialSent(c) ==
    /\ turn[c].pc = "initial_send"
    /\ AfterInitial(c, turn[c])
    /\ UNCHANGED <<message_history, started>>

\* the await of invoke_tool inside execute_tool ends, execute_tool returns,
\* the result is formatted and sent
ToolReturns(c, outcome, r) ==
    /\ turn[c].pc = "tool_exec"
    /\ ExecFinish(c, outcome, r)
    /\ turn' = [turn EXCEPT ![c].pc = "tool_send",
                            ![c].cur = FormatCallToolResult(last'.result)]
    /\ UNCHANGED <<message_history, lists, started>>

\* The send about a tool call returned: its entry joins
\* tool_results_for_history; the loop goes on with the next call or, after
\* the last one, the entries are added to the history and the follow-up call
\* is made.
ToolSent(c) ==
    LET tr == [turn[c] EXCEPT
                 !.results = Append(@, ToolMessage(turn[c].serial,
                                                   turn[c].calls[turn[c].idx],
                                                   turn[c].cur)),
                 !.cur = NoContent]
    IN
    /\ turn[c].pc = "tool_send"
    /\ IF tr.idx < Len(tr.calls)
       THEN /\ StartCall(c, [tr EXCEPT !.idx = @ + 1])
            /\ UNCHANGED lists
       ELSE /\ lists' = [lists EXCEPT ![tr.channel_history] = @ \o tr.results]
            /\ turn' = [turn EXCEPT ![c] =
                          [tr EXCEPT !.pc = "followup",
                                     !.follow_up_params = FollowUpParams(tr.chat_params),
                                     !.backend_calls = @ + 1]]
            /\ UNCHANGED <<server, call, last>>
    /\ UNCHANGED <<message_history, started>>

\* the follow-up await of chat.completions.create ends: of the answer, the
\* content alone is read
FollowUpReturns(c, reply) ==
    /\ turn[c].pc = "followup"
    /\ IF reply.kind = "error" THEN Abort(c, "followup_error")
       ELSE IF Strip(reply.content) # ""
       THEN /\ turn' = [turn EXCEPT ![c].pc = "followup_send",
                                    ![c].content = reply.content]
            /\ UNCHANGED lists
       ELSE Return(c, lists)
    /\ UNCHANGED <<message_history, started, server, call, last>>

\* send_long_message(sendable, follow_up_text) returned
FollowUpSent(c) ==
    /\ turn[c].pc = "followup_send"
    /\ Return(c, [lists EXCEPT ![turn[c].channel_history] =
                    Appended(@, AssistantMessage(turn[c].serial, turn[c].content, <<>>))])
    /\ UNCHANGED <<message_history, started, server, call, last>>

\* the send before an early return returned
Ended(c) ==
    /\ turn[c].pc = "ending"
    /\ Return(c, lists)
    /\ UNCHANGED <<message_history, started, server, call, last>>

\* f'Error during tool execution phase for "{tool_name}": {str(exec_e)}'
ExecutionPhaseError == <<"Error", "ExecutionPhase">>

\* The send about a tool call raises something send_long_message does not
\* catch (it catches discord.HTTPException alone): the handler of the tool
\* loop makes the error the content of the entry and sends a warning.
ToolSendFaults(c) ==
    /\ turn[c].pc = "tool_send"
    /\ turn[c].cur # ExecutionPhaseError
    /\ turn' = [turn EXCEPT ![c].cur = ExecutionPhaseError]
    /\ UNCHANGED <<message_history, lists, started, server, call, last>>

\* variant: the handler forgets every conversation
UnhandledForgetsAll(c) ==
    /\ turn' = [turn EXCEPT ![c].pc = "unhandled"]
    /\ message_history' = [ch \in Channels |-> NoList]
    /\ lists' = Collect(lists, message_history', turn')

\* except Exception at the end of _handle_chat_logic: the fault is logged and
\* the apology is sent
Unhandled(c) ==
    /\ turn' = [turn EXCEPT ![c].pc = "unhandled"]
    /\ UNCHANGED <<message_history, lists>>

\* A send outside the handlers of the tool loop raises (the initial answer,
\* the message before an early return, the follow-up answer, the warning of
\* the tool loop's handler): the fault reaches the outermost handler.
TurnFaults(c) ==
    /\ \/ turn[c].pc \in {"initial_send", "ending", "followup_send"}
       \/ turn[c].pc = "tool_send" /\ turn[c].cur = ExecutionPhaseError
    /\ Unhandled(c)
    /\ UNCHANGED <<started, server, call, last>>

\* the send of the apology returned or raised (its failure is logged): the
\* turn returns
UnhandledSent(c) ==
    /\ turn[c].pc = "unhandled"
    /\ Return(c, lists)
    /\ UNCHANGED <<message_history, started, server, call, last>>

InFlight(c) == turn[c].pc # "idle"

----------------------------------------------------------------------------
(* mcp_list_slash: the status command, which reads and changes nothing *)

\* name in self._connection_tasks and not self._connection_tasks[name].done()
TaskRunning(name) ==
    /\ connection_tasks[name] # NoTask
    /\ task[connection_tasks[name]].pc # "done"

\* variant: a running task is looked at before the connection
StatusTaskFirst(name) ==
    IF TaskRunning(name) THEN "Connecting"
    ELSE IF Has(mcp_connections, name) /\ Has(mcp_tools, name) THEN "Ready"
    ELSE IF Has(mcp_connections, name) THEN "Degraded"
    ELSE IF name \in {config[i] : i \in 1..Len(config)} THEN "Disconnected"
    ELSE "Unknown"

\* The if/elif chain of the loop over the names: 'Connected & Tools Listed',
\* 'Connected (Listing Tools Failed?)', 'Connecting / Initializing...',
\* 'Disconnected / Unavailable', 'Unknown State (Stale Data?)'.
Status(name) ==
    IF Has(mcp_connections, name) /\ Has(mcp_tools, name) THEN "Ready"
    ELSE IF Has(mcp_connections, name) THEN "Degraded"
    ELSE IF TaskRunning(name) THEN "Connecting"
    ELSE IF name \in {config[i] : i \in 1..Len(config)} THEN "Disconnected"
    ELSE "Unknown"

\* configured_servers.union(connected_servers).union(servers_with_tools)
AllServerNames ==
    {config[i] : i \in 1..Len(config)} \cup Keys(mcp_connections) \cup Keys(mcp_tools)

\* What the command answers: with nothing connected and no tool list, one
\* sentence about all servers (none configured, none connected, connecting);
\* otherwise a line with a status for every name.
McpList ==
    IF mcp_connections = <<>> /\ mcp_tools = <<>>
    THEN [overall |-> IF \A n \in Servers : connection_tasks[n] = NoTask
                      THEN "No MCP servers are configured"
                      ELSE IF \A n \in Servers : ~TaskRunning(n)
                      THEN "none are currently connected"
                      ELSE "attempting to connect/reconnect",
          lines |-> <<>>]
    ELSE [overall |-> "-",
          lines |-> [n \in AllServerNames |-> Status(n)]]

----------------------------------------------------------------------------
(* The specifications *)

InitWith(cfg) ==
    /\ config = cfg
    /\ mcp_connections = <<>>
    /\ mcp_tools = <<>>
    /\ connection_tasks = [n \in Servers |-> NoTask]
    /\ shutdown_event = FALSE
    /\ task = [t \in TaskIds |-> UnbornTask]
    /\ nextTask = 1
    /\ cog = "constructed"
    /\ unload = NoUnload
    /\ call = [c \in Callers |-> NewCall]
    /\ last = NoLast
    /\ message_history = [ch \in Channels |-> NoList]
    /\ lists = [i \in ListIds |-> <<>>]
    /\ turn = [c \in Callers |-> NewTurn]
    /\ started = 0

Supervisors(b) == \E t \in TaskIds : SupervisorStep(t, b)

Unload ==
    \/ UnloadBegin
    \/ UnloadGraceDone
    \/ UnloadGraceTimeout
    \/ UnloadCancelDone
    \/ UnloadCancelTimeout

\* the callers in C inside execute_tool, the providers answering from R
Router(C, R) ==
    \/ \E c \in C, n \in ToolNames : ExecuteTool(c, n) /\ UNCHANGED chat
    \/ \E c \in C, e \in Completions(R) : ExecFinish(c, e[1], e[2]) /\ UNCHANGED chat

\* two configured servers, the supervisors, load and unload, and the router
Init == InitWith(<<"s1", "s2">>)

Next ==
    \/ CogLoad
    \/ Unload
    \/ Supervisors(MaxRetries)
    \/ Router(Callers, SomeResponses)

Spec == Init /\ [][Next]_vars

\* the same with one caller and every ToolInvocationResult
NextReturned ==
    \/ CogLoad
    \/ Unload
    \/ Supervisors(MaxRetries)
    \/ Router({"c1"}, Responses)

SpecReturned == Init /\ [][NextReturned]_vars

\* one configured server and its supervisor through long runs of failures
InitBackoff == InitWith(<<"s1">>)

NextBackoff ==
    \/ CogLoad
    \/ Unload
    \/ Supervisors(MaxFailures)

SpecBackoff == InitBackoff /\ [][NextBackoff]_vars

\* the steps of the conversation turns of the callers in C that end with
\* something other than the return of invoke_tool, on the channels in H; m
\* bounds the turns started, the backend answers from R and, to the follow-up
\* call, from F
Turns(C, H, m, R, F) ==
    \/ \E c \in C, ch \in H : TurnStart(c, ch, m, "False")
    \/ \E c \in C, reply \in R : LlmReturns(c, reply)
    \/ \E c \in C : InitialSent(c)
    \/ \E c \in C : ToolSent(c)
    \/ \E c \in C, reply \in F : FollowUpReturns(c, reply)
    \/ \E c \in C : FollowUpSent(c)
    \/ \E c \in C : Ended(c)

\* concurrent conversation turns, no server configured
InitChat == InitWith(<<>>)

NextChat == Turns(Callers, Channels, MaxTurns, SomeReplies, SomeFollowUps)

SpecChat == InitChat /\ [][NextChat]_vars

\* one caller's turns on one channel with a server that connects at the first attempt and
\* tool invocations that end in every way
InitTools == InitWith(<<"s1">>)

NextTools ==
    \/ CogLoad
    \/ \E t \in TaskIds : SupStart(t, 0)
    \/ \E t \in TaskIds : SupListOk(t)
    \/ Turns({"c1"}, {"ch1"}, MaxToolTurns, Replies, FollowUps)
    \/ \E e \in Completions(SomeResponses) : ToolReturns("c1", e[1], e[2])

SpecTools == InitTools /\ [][NextTools]_vars

\* one caller's turn with the streaming transport, no server configured
InitStream == InitWith(<<>>)

NextStream ==
    \/ TurnStart("c1", "ch1", MaxStreamTurns, "True")
    \/ StreamOpens("c1")
    \/ \E delta \in Deltas : StreamChunk("c1", delta, MaxChunks)
    \/ StreamEnds("c1")
    \/ StreamFails("c1")
    \/ InitialSent("c1")
    \/ ToolSent("c1")
    \/ \E reply \in SomeFollowUps : FollowUpReturns("c1", reply)
    \/ FollowUpSent("c1")
    \/ Ended("c1")

SpecStream == InitStream /\ [][NextStream]_vars

\* one caller's turns, each with one call of "ta", the tool answering with
\* every shape of content
InitFormat == InitWith(<<"s1">>)

NextFormat ==
    \/ CogLoad
    \/ \E t \in TaskIds : SupStart(t, 0)
    \/ \E t \in TaskIds : SupListOk(t)
    \/ Turns({"c1"}, {"ch1"}, MaxToolTurns, OneToolCall, SomeFollowUps)
    \/ \E e \in Completions(RichResponses) : ToolReturns("c1", e[1], e[2])

SpecFormat == InitFormat /\ [][NextFormat]_vars

\* one caller's turns while two servers connect, fail and reconnect; the
\* backend answers with text or fails
InitSchema == InitWith(<<"s1", "s2">>)

NextSchema ==
    \/ CogLoad
    \/ \E t \in TaskIds : SupStart(t, MaxRetries)
    \/ \E t \in TaskIds : SupListOk(t)
    \/ \E t \in TaskIds : SupListFail(t, MaxRetries)
    \/ \E t \in TaskIds : SupBackoffTimeout(t, MaxRetries)
    \/ TurnStart("c1", "ch1", MaxToolTurns, "False")
    \/ \E reply \in TextReplies : LlmReturns("c1", reply)
    \/ InitialSent("c1")
    \/ Ended("c1")

SpecSchema == InitSchema /\ [][NextSchema]_vars

\* turns of c1 on ch1 and of c2 on ch2, whose sends may raise, while a server
\* connects
InitFault == InitWith(<<"s1">>)

NextFault ==
    \/ CogLoad
    \/ \E t \in TaskIds : SupStart(t, 0)
    \/ \E t \in TaskIds : SupListOk(t)
    \/ Turns({"c1"}, {"ch1"}, MaxTurns, FaultReplies, SomeFollowUps)
    \/ Turns({"c2"}, {"ch2"}, MaxTurns, FaultReplies, SomeFollowUps)
    \/ \E c \in Callers : ToolSendFaults(c)
    \/ \E c \in Callers : TurnFaults(c)
    \/ \E c \in Callers : UnhandledSent(c)

SpecFault == InitFault /\ [][NextFault]_vars

\* two configured servers, the supervisors, load and unload; every task
\* that can run does run, and so does cog_unload
NextUnload ==
    \/ CogLoad
    \/ Unload
    \/ Supervisors(MaxRetries)

SpecUnload ==
    /\ Init
    /\ [][NextUnload]_vars
    /\ WF_vars(Unload)
    /\ \A t \in TaskIds : WF_vars(SupervisorStep(t, MaxRetries))

\* the same, where the supervisors run but cog_unload need not be called
SpecReload ==
    /\ Init
    /\ [][NextUnload]_vars
    /\ \A t \in TaskIds : WF_vars(SupervisorStep(t, MaxRetries))

TypeOK ==
    /\ Keys(mcp_connections) \subseteq Servers
    /\ Keys(mcp_tools) \subseteq Servers
    /\ nextTask \in 1..(MaxTasks + 1)
    /\ \A t \in TaskIds : task[t].reconnect_delay \in InitialDelay..max_reconnect_delay

----------------------------------------------------------------------------
(* Properties *)

\* the step in which caller c's await of invoke_tool ends and execute_tool returns
Finishes(c) == call[c].pc = "invoking" /\ call'[c].pc = "idle"

\* the entries of d under keys other than k, in their order
Others(d, k) == SelectSeq(d, LAMBDA e : e[1] # k)

\* C1: a supervisor whose attempts fail one after the other waits 15, 30, 60,
\* 120, 240, 300, 300, ... seconds: its k-th wait is min(15 * 2^(k-1), 300),
\* and the delay is never below 15 or above 300.
C1_BackoffSequence ==
    \A t \in TaskIds :
      /\ task[t].reconnect_delay >= 15
      /\ task[t].reconnect_delay <= 300
      /\ task[t].pc = "backoff" =>
           task[t].reconnect_delay = Min(15 * Pow2(task[t].fails - 1), 300)

\* the seventh wait in a row: 300 s, as the sixth
C1_Witness ==
    \E t \in TaskIds :
      task[t].pc = "backoff" /\ task[t].fails = 7 /\ task[t].reconnect_delay = 300

\* C2: once a supervisor has reached Ready its reconnect delay, the wait that
\* follows its next failure, is 15 seconds, whatever it had grown to before.
C2_DelayResetInReady ==
    \A t \in TaskIds : task[t].pc = "ready" => task[t].reconnect_delay = 15

\* Ready after three failed attempts, the delay having grown to 120
C2_Witness ==
    \E t \in TaskIds :
      task[t].pc = "ready" /\ task[t].fails = 3 /\ task[t].reconnect_delay = 15

\* C3: a connection fault during the invocation removes the connection and
\* the tool set of the server the call was routed to, leaves the entries of
\* every other server as they were, and execute_tool returns an error value.
C3_FaultEvictsRoutedServerOnly ==
    [][\A c \in Callers :
         (Finishes(c) /\ last'.outcome = "ConnectionFault") =>
            LET s == call[c].server IN
            /\ ~Has(mcp_connections', s)
            /\ ~Has(mcp_tools', s)
            /\ Others(mcp_connections', s) = Others(mcp_connections, s)
            /\ Others(mcp_tools', s) = Others(mcp_tools, s)
            /\ last'.result.kind = "ConnectionError"]_vars

\* a fault has evicted the routed server and the other server is still published
C3_Witness ==
    /\ last.outcome = "ConnectionFault"
    /\ ~Has(mcp_connections, last.server)
    /\ ~Has(mcp_tools, last.server)
    /\ Len(mcp_connections) = 1
    /\ Len(mcp_tools) = 1

\* C4 (as claimed): after the router has evicted a server's entry because of
\* a connection fault, the server's supervisor, idle in Ready, leaves Ready
\* without a shutdown signal: it has a step to take.
C4_SupervisorLeavesReadyAfterEviction ==
    \A t \in TaskIds :
      ( /\ task[t].pc = "ready"
        /\ ~shutdown_event
        /\ last.outcome = "ConnectionFault"
        /\ last.server = task[t].name
        /\ ~Has(mcp_connections, task[t].name) )
      => ENABLED SupervisorStep(t, MaxRetries)

\* C5 (as claimed): a tool name that a connection fault has just evicted with
\* its server, asked for again while that server has no live connection,
\* gets the Unavailable answer.
C5_UnavailableAfterEviction ==
    [][( /\ last.outcome = "ConnectionFault"
         /\ ~Has(mcp_connections, last.server)
         /\ last'.outcome = "unresolved"
         /\ last'.tool = last.tool )
       => last'.result.kind = "Unavailable"]_vars

\* C6: execute_tool routes a name to a server that has a live connection and
\* lists the name, and to the first such server in the insertion order of the
\* connections (so to the only one when there is only one); it fails to
\* resolve only when no such server exists.
C6_RoutesToFirstLiveServer ==
    [][\A c \in Callers :
         /\ (call[c].pc = "idle" /\ call'[c].pc = "invoking") =>
              LET s == call'[c].server
                  n == call'[c].tool
              IN
              /\ Has(mcp_connections, s)
              /\ Has(mcp_tools, s)
              /\ InList(Get(mcp_tools, s), n)
              /\ call'[c].client = Get(mcp_connections, s)
              /\ \A o \in Servers :
                   (Has(mcp_connections, o) /\ Has(mcp_tools, o)
                      /\ InList(Get(mcp_tools, o), n))
                   => IndexOf(mcp_connections, s) <= IndexOf(mcp_connections, o)
         /\ (last' # last /\ last'.outcome = "unresolved") =>
              ~\E o \in Servers :
                   /\ Has(mcp_connections, o)
                   /\ Has(mcp_tools, o)
                   /\ InList(Get(mcp_tools, o), last'.tool)]_vars

\* "tb", listed by both live servers, is routed to s2, which connected first
C6_Witness ==
    \E c \in Callers :
      /\ call[c].pc = "invoking"
      /\ call[c].tool = "tb"
      /\ call[c].server = "s2"
      /\ Len(mcp_connections) = 2
      /\ mcp_connections[1][1] = "s2"
      /\ Len(mcp_tools) = 2

\* C7: when the invocation times out execute_tool returns the timeout error
\* and the registries are what they were: the routed server's connection and
\* tool set are still published.
C7_TimeoutLeavesRegistry ==
    [][\A c \in Callers :
         (Finishes(c) /\ last'.outcome = "Timeout") =>
            /\ last'.result.kind = "Timeout"
            /\ mcp_connections' = mcp_connections
            /\ mcp_tools' = mcp_tools]_vars

\* a call has timed out and its server is still published
C7_Witness ==
    /\ last.outcome = "Timeout"
    /\ Has(mcp_connections, last.server)
    /\ Has(mcp_tools, last.server)

\* C8: an invocation that returns a non-null, non-zero error_code gives a
\* tool-reported error with the code, and with the content when there is
\* one, and the registries stay as they were; with a null or zero error_code
\* the ToolInvocationResult is returned as it is.
C8_ToolReportedError ==
    [][\A c \in Callers :
         (Finishes(c) /\ last'.outcome = "Returned") =>
            LET r == last'.response
                res == last'.result
            IN
            /\ mcp_connections' = mcp_connections
            /\ mcp_tools' = mcp_tools
            /\ IF r.code # None /\ r.code # Some(0)
               THEN /\ res.kind = "ToolReportedError"
                    /\ res.code = r.code
                    /\ r.content = None => res.content = None
                    /\ Truthy(r.content) => res.content = r.content
               ELSE res = r]_vars

\* error code 7 with content "x" has been reported, the server still published
C8_Witness ==
    /\ last.outcome = "Returned"
    /\ last.response = ToolInvocationResult(Some(7), Some(PyStr("x")))
    /\ last.result.kind = "ToolReportedError"
    /\ Has(mcp_connections, last.server)
    /\ Has(mcp_tools, last.server)

\* C9: one execute_tool call calls invoke_tool at most once, whatever the
\* outcome, and not at all when the resolution fails.
C9_AtMostOneInvocation ==
    /\ \A c \in Callers :
         /\ call[c].invokes <= 1
         /\ call[c].pc = "idle" => call[c].invokes = 0
    /\ last.invokes <= 1
    /\ last.outcome = "unresolved" => last.invokes = 0

\* a call that timed out has returned, after one invocation
C9_Witness == last.outcome = "Timeout" /\ last.invokes = 1

\* C10: in every state another task can observe, a server has a published
\* connection if and only if it has a published tool set.
C10_EntryAllOrNothing == Keys(mcp_connections) = Keys(mcp_tools)

\* after a fault eviction, the other server's entry still whole
C10_Witness ==
    /\ last.outcome = "ConnectionFault"
    /\ Keys(mcp_connections) = Servers \ {last.server}
    /\ Keys(mcp_tools) = Servers \ {last.server}

\* C11: a step of the supervisor of server n changes no registry entry of
\* another server: the connections and the tool sets under the other keys,
\* and their order, are what they were.
C11_SupervisorTouchesOwnEntriesOnly ==
    [][\A t \in TaskIds :
         SupervisorStep(t, MaxRetries) =>
            /\ Others(mcp_connections', task[t].name) = Others(mcp_connections, task[t].name)
            /\ Others(mcp_tools', task[t].name) = Others(mcp_tools, task[t].name)]_vars

\* s1's supervisor has published after a failure and a wait, s2's entry
\* published before it is still the first
C11_Witness ==
    /\ \E t \in TaskIds :
         task[t].name = "s1" /\ task[t].pc = "ready" /\ task[t].fails = 1
    /\ Len(mcp_connections) = 2
    /\ mcp_connections[1][1] = "s2"
    /\ mcp_tools[1] = <<"s2", Catalog("s2")>>

\* C12 (as claimed): once the shutdown signal is raised, a supervisor that is
\* suspended in the reconnect wait, in Ready or in list_tools changes only by
\* ending on its own: it is never force-cancelled.
C12_CooperativeTermination ==
    [][\A t \in TaskIds :
         ( /\ shutdown_event
           /\ task[t].pc \in {"backoff", "ready", "listing"}
           /\ task'[t] # task[t] )
         => task'[t].pc = "done"]_vars

\* C13: while the shutdown signal is up no supervisor starts an attempt (none
\* enters list_tools, none fails a new attempt), no delay grows, and a
\* supervisor in the reconnect wait only leaves it to end.
C13_NoAttemptAfterShutdown ==
    [][\A t \in TaskIds :
         shutdown_event =>
            /\ task'[t].pc = "listing" => task[t].pc = "listing"
            /\ task'[t].pc = "backoff" => task[t].pc = "backoff"
            /\ task'[t].fails <= task[t].fails
            /\ task'[t].reconnect_delay <= task[t].reconnect_delay
            /\ (task[t].pc = "backoff" /\ task'[t] # task[t]) => task'[t].pc = "done"]_vars

\* the signal is up and a supervisor is in its third reconnect wait: it can
\* leave the wait on the signal and cannot time out of it
C13_Witness ==
    /\ shutdown_event
    /\ \E t \in TaskIds :
         /\ task[t].pc = "backoff"
         /\ task[t].reconnect_delay = 60
         /\ ENABLED SupBackoffShutdown(t)
         /\ ~ENABLED SupBackoffTimeout(t, MaxFailures)

C15_EmptyAfterUnload ==
    cog = "unloaded" =>
       /\ mcp_connections = <<>>
       /\ mcp_tools = <<>>
       /\ TasksInTable = {}

\* cog_unload has returned while an invocation routed before the unload is
\* still in flight
C15_Witness ==
    /\ cog = "unloaded"
    /\ mcp_connections = <<>>
    /\ mcp_tools = <<>>
    /\ \A t \in TaskIds : task[t].pc = "done"
    /\ \E c \in Callers : call[c].pc = "invoking"

\* the last n entries of h, in their order
LastN(h, n) == [i \in 1..n |-> h[Len(h) - n + i]]

\* the entries of h
Entries(h) == {h[i] : i \in 1..Len(h)}

\* new is old without some of its oldest entries after element 0, followed by
\* entries that old did not have
TrimmedAndAppended(old, new) ==
    /\ Len(new) >= 1
    /\ new[1] = old[1]
    /\ \E j \in 2..(Len(old) + 1) :
         LET kept == SubSeq(old, j, Len(old)) IN
         /\ Len(new) >= 1 + Len(kept)
         /\ SubSeq(new, 2, 1 + Len(kept)) = kept
         /\ \A i \in (2 + Len(kept))..Len(new) : new[i] \notin Entries(old)

\* the entries of h that turn t appended
EntriesOf(h, t) == SelectSeq(h, LAMBDA m : m.turn = t)

\* C16: every stored history has the system message as element 0, and a
\* step changes a stored history only by dropping oldest entries after
\* element 0 and by appending new entries at its end: what it retains stays
\* in its order.
C16_HistoryAppendOnly ==
    /\ [](\A ch \in Channels :
            message_history[ch] # NoList =>
               /\ Len(Stored(ch)) >= 1
               /\ Stored(ch)[1] = SystemMessage
               /\ \A i \in 2..Len(Stored(ch)) : Stored(ch)[i].role # "system")
    /\ [][\A ch \in Channels :
            message_history[ch] # NoList =>
               /\ message_history'[ch] # NoList
               /\ TrimmedAndAppended(Stored(ch), lists'[message_history'[ch]])]_vars

\* a stored history whose oldest entries were trimmed by the read of turn 2,
\* and to which turn 2 has appended its user and assistant messages
C16_Witness ==
    \E ch \in Channels :
      /\ message_history[ch] # NoList
      /\ Len(Stored(ch)) = max_history_len + 3
      /\ Stored(ch)[1] = SystemMessage
      /\ Stored(ch)[2].turn = 1
      /\ Stored(ch)[2].role # "user"
      /\ Stored(ch)[Len(Stored(ch))].turn = 2
      /\ Stored(ch)[Len(Stored(ch))].role = "assistant"

\* C17: a turn that starts on a channel with a history h holds, after its
\* read and its append, element 0 of h followed by the last N entries of h
\* when h has more than N + 1 entries, h itself otherwise, followed by its
\* user message; this list is the one stored for the channel.
C17_TrimKeepsLastN ==
    [][\A c \in Callers, ch \in Channels :
         ( /\ turn[c].pc = "idle"
           /\ turn'[c].pc = "llm"
           /\ turn'[c].channel = ch
           /\ message_history[ch] # NoList )
         => LET h == Stored(ch)
                read == IF Len(h) > max_history_len + 1
                        THEN <<h[1]>> \o LastN(h, max_history_len)
                        ELSE h
            IN
            /\ lists'[turn'[c].channel_history] =
                 read \o <<UserMessage(turn'[c].serial)>>
            /\ message_history'[ch] = turn'[c].channel_history]_vars

\* a turn has just read a history of N + 3 entries: two were removed, it
\* holds the system message, N entries and its user message
C17_Witness ==
    \E c \in Callers :
      /\ turn[c].pc = "llm"
      /\ turn[c].removed = 2
      /\ Len(lists[turn[c].channel_history]) = max_history_len + 2
      /\ lists[turn[c].channel_history][1] = SystemMessage
      /\ lists[turn[c].channel_history][2].turn < turn[c].serial

\* C18 (as claimed): two turns in flight at the same time are turns on
\* different channels.
C18_OneTurnPerKey ==
    \A c, d \in Callers :
      (c # d /\ InFlight(c) /\ InFlight(d)) => turn[c].channel # turn[d].channel

\* C19 (as claimed): when a call of the reasoning backend fails, the history
\* the turn works on holds no entry that the turn appended.
C19_AbortLeavesNoEntry ==
    [][\A c \in Callers :
         ( /\ turn[c].pc \in {"llm", "followup"}
           /\ turn'[c].pc = "ending"
           /\ turn'[c].why \in {"llm_error", "followup_error"} )
         => EntriesOf(lists'[turn[c].channel_history], turn[c].serial) = <<>>]_vars

ToolEntries(c) ==
    SelectSeq(EntriesOf(lists[turn[c].channel_history], turn[c].serial),
              LAMBDA m : m.role = "tool")

\* C21: a turn has made its follow-up call exactly when its history holds
\* tool entries of its own; it makes at most two calls of the backend, the
\* second without tools and tool_choice; a turn without finalized tool calls
\* returns after its first call; and once the follow-up call is made no tool
\* is executed for the turn any more, whatever the follow-up answer asks for.
C21_OneFollowUpWithoutTools ==
    /\ [](\A c \in Callers :
            InFlight(c) =>
              /\ turn[c].backend_calls \in {1, 2}
              /\ (turn[c].backend_calls = 2) = (ToolEntries(c) # <<>>)
              /\ (turn[c].backend_calls = 2) =
                   (turn[c].pc \in {"followup", "followup_send"}
                      \/ (turn[c].pc = "ending" /\ turn[c].why = "followup_error"))
              /\ turn[c].backend_calls = 2 =>
                   /\ "tools" \notin DOMAIN turn[c].follow_up_params
                   /\ "tool_choice" \notin DOMAIN turn[c].follow_up_params
                   /\ turn[c].follow_up_params = BaseParams(turn[c].chat_params.stream))
    /\ [][\A c \in Callers :
            /\ (InFlight(c) /\ turn[c].backend_calls = 2) =>
                 /\ turn'[c] = turn[c] \/ turn'[c].pc \notin {"llm", "initial_send", "tool_exec", "tool_send",
                                        "followup"}
                 /\ call' = call
                 /\ last' = last
            /\ (turn[c].pc \in {"llm", "initial_send"} /\ turn'[c] # turn[c]
                  /\ turn'[c].calls = <<>>) =>
                 turn'[c].pc \in {"initial_send", "ending", "idle"}]_vars

\* the first call offered the tools of s1, both tool calls of the answer left
\* their entry, and the follow-up call is awaited without tools
C21_Witness ==
    \E c \in Callers :
      /\ turn[c].pc = "followup"
      /\ turn[c].backend_calls = 2
      /\ Len(ToolEntries(c)) = 2
      /\ "tools" \in DOMAIN turn[c].chat_params
      /\ "tools" \notin DOMAIN turn[c].follow_up_params

\* C22: when a turn takes up a tool call whose arguments are no JSON text or
\* parse to something other than an object, execute_tool is not entered (no
\* invocation starts, no call returns), the registry stays as it is and the
\* complaint is what gets sent; the entry kept for such a call carries the
\* error text, the entries of the other calls do not, and the calls after it
\* get their entries as well.
C22_BadArgumentsNotExecuted ==
    /\ [][\A c \in Callers :
            (/\ turn'[c].pc \in {"tool_exec", "tool_send"}
             /\ turn'[c].idx # turn[c].idx
             /\ JsonLoads(turn'[c].calls[turn'[c].idx].arguments) # "dict") =>
               /\ call' = call
               /\ last' = last
               /\ registry' = registry
               /\ turn'[c].pc = "tool_send"
               /\ turn'[c].cur = InvalidArguments]_vars
    /\ [](\A c \in Callers :
            /\ \A i \in 1..Len(turn[c].results) :
                 (JsonLoads(turn[c].calls[i].arguments) # "dict")
                   = (turn[c].results[i].content = InvalidArguments)
            /\ turn[c].pc \in {"followup", "followup_send"} =>
                 /\ Len(ToolEntries(c)) = Len(turn[c].calls)
                 /\ \A i \in 1..Len(turn[c].calls) :
                      (JsonLoads(turn[c].calls[i].arguments) # "dict")
                        = (ToolEntries(c)[i].content = InvalidArguments))

\* s1 is connected and lists "ta"; the first call gave "ta" a JSON array, the
\* second an object: the first has its error entry and nothing was invoked
\* for it, the second is being invoked
C22_Witness ==
    \E c \in Callers :
      /\ turn[c].pc = "tool_exec"
      /\ turn[c].idx = 2
      /\ turn[c].calls[1] = ToolCall("id1", "ta", "[]")
      /\ turn[c].calls[2] = ToolCall("id2", "ta", "{}")
      /\ turn[c].results = <<ToolMessage(turn[c].serial, turn[c].calls[1], InvalidArguments)>>
      /\ call[c].pc = "invoking"
      /\ last.outcome = "none"

\* the tool call fragments of the chunks ds, in the order of their arrival
RECURSIVE FragmentsOf(_)
FragmentsOf(ds) ==
    IF ds = <<>> THEN <<>> ELSE Head(ds).tool_calls \o FragmentsOf(Tail(ds))

\* those of the fragments fs that are addressed to slot k
Own(fs, k) == SelectSeq(fs, LAMBDA f : f.index = k)

RECURSIVE NamesJoined(_)
NamesJoined(fs) == IF fs = <<>> THEN "" ELSE Head(fs).name \o NamesJoined(Tail(fs))

RECURSIVE ArgumentsJoined(_)
ArgumentsJoined(fs) ==
    IF fs = <<>> THEN "" ELSE Head(fs).arguments \o ArgumentsJoined(Tail(fs))

\* the last id that the fragments fs provide, "" when none does
LastId(fs) ==
    LET with == SelectSeq(fs, LAMBDA f : f.id # "") IN
    IF with = <<>> THEN "" ELSE with[Len(with)].id

\* what slot k holds after the fragments fs
SlotAfter(fs, k) ==
    ToolCall(LastId(Own(fs, k)), NamesJoined(Own(fs, k)), ArgumentsJoined(Own(fs, k)))

\* the slots k, k+1, ..., n-1 that have an id and a name after the fragments fs
RECURSIVE CompleteSlots(_, _, _)
CompleteSlots(fs, k, n) ==
    IF k >= n THEN <<>>
    ELSE (IF SlotAfter(fs, k).id # "" /\ SlotAfter(fs, k).name # ""
          THEN <<SlotAfter(fs, k)>> ELSE <<>>)
           \o CompleteSlots(fs, k + 1, n)

\* C23: while a streamed answer arrives, the slot table has a slot for every
\* index up to the highest one addressed, each slot holding the last id its
\* fragments gave and their names and arguments joined in arrival order (a
\* slot no fragment addressed is empty); when the stream ends, the turn's
\* tool calls are exactly the slots with an id and a name, by ascending
\* index, and the text is the chunks' text joined.
C23_StreamAggregation ==
    /\ [](\A c \in Callers :
            turn[c].pc = "streaming" =>
              LET fs == FragmentsOf(turn[c].deltas)
                  slots == turn[c].current_tool_calls
              IN
              /\ \A i \in 1..Len(fs) : fs[i].index < Len(slots)
              /\ slots # <<>> => \E i \in 1..Len(fs) : fs[i].index = Len(slots) - 1
              /\ \A k \in 0..(Len(slots) - 1) : slots[k + 1] = SlotAfter(fs, k))
    /\ [][\A c \in Callers :
            (/\ turn[c].pc = "streaming"
             /\ turn'[c].pc # "streaming"
             /\ turn'[c].why # "llm_error") =>
               turn'[c].calls = CompleteSlots(FragmentsOf(turn[c].deltas), 0,
                                              Len(turn[c].current_tool_calls))]_vars

\* the chunks were the two halves of a call in slot 0, the second with
\* another id, and a whole call in slot 2: slot 1, which no fragment
\* addressed, was dropped, and the first of the two tool calls, with the
\* later id, the joined name and the joined arguments, is taken up
C23_Witness ==
    \E c \in Callers :
      /\ turn[c].chat_params.stream = "True"
      /\ turn[c].pc = "tool_send"
      /\ turn[c].idx = 1
      /\ turn[c].calls = <<ToolCall("id9", "ta", "{}"), ToolCall("id2", "tb", "{}")>>

\* the assistant entries of caller c's turn in the list the turn works on
AssistantEntries(c) ==
    SelectSeq(EntriesOf(lists[turn[c].channel_history], turn[c].serial),
              LAMBDA m : m.role = "assistant")

\* C24: when the first answer has been taken in (and its text, if any, sent),
\* the assistant message with the text and the ids of the finalized tool
\* calls is appended if there is text or a finalized call, and the turn goes
\* on to the calls or returns; if there is neither, the history is left as it
\* is, the default answer is sent, and all that follows is the return:
\* nothing is executed and the backend is not called again.
C24_AssistantMessageIffCarries ==
    /\ [][\A c \in Callers :
            LET old == lists[turn[c].channel_history]
                new == lists'[turn[c].channel_history]
            IN
            /\ (turn[c].pc = "initial_send" /\ turn'[c] # turn[c]) =>
                 /\ turn[c].content # ""
                 /\ new = Append(old, AssistantMessage(turn[c].serial, turn[c].content,
                                                       turn[c].calls))
                 /\ IF turn[c].calls = <<>> THEN turn'[c].pc = "idle"
                    ELSE turn'[c].pc \in {"tool_exec", "tool_send"}
            /\ (turn[c].pc = "llm" /\ turn'[c].pc \in {"tool_exec", "tool_send"}) =>
                 /\ turn'[c].calls # <<>>
                 /\ new = Append(old, AssistantMessage(turn[c].serial, "", turn'[c].calls))
            /\ (turn[c].pc = "llm" /\ turn'[c].pc = "initial_send") =>
                 /\ Strip(turn'[c].content) # ""
                 /\ lists' = lists
            /\ (turn[c].pc = "llm" /\ turn'[c].pc = "ending" /\ turn'[c].why = "nothing") =>
                 /\ turn'[c].calls = <<>>
                 /\ turn'[c].content = ""
                 /\ lists' = lists
                 /\ call' = call
            /\ (turn[c].pc = "llm" /\ turn'[c] # turn[c]) =>
                 turn'[c].pc \in {"tool_exec", "tool_send", "initial_send", "ending"}
            /\ (turn[c].pc = "ending" /\ turn'[c] # turn[c]) =>
                 /\ turn'[c].pc = "idle"
                 /\ new = old
                 /\ call' = call]_vars
    /\ [](\A c \in Callers :
            (turn[c].pc = "ending" /\ turn[c].why = "nothing") =>
              /\ AssistantEntries(c) = <<>>
              /\ ToolEntries(c) = <<>>
              /\ turn[c].backend_calls = 1)

\* the answer had blank text and two tool calls: the assistant message with
\* their ids is the last entry and the first call is taken up
C24_Witness ==
    \E c \in Callers :
      LET h == lists[turn[c].channel_history] IN
      /\ turn[c].pc \in {"tool_exec", "tool_send"}
      /\ turn[c].idx = 1
      /\ turn[c].results = <<>>
      /\ Len(turn[c].calls) = 2
      /\ h[Len(h)] = Message("assistant", turn[c].serial, <<"text", "">>,
                             <<"id1", "id2">>, "-", "-")

\* the status the claim gives a server
ClaimedStatus(n) ==
    LET connection == Has(mcp_connections, n)
        tool_set == Has(mcp_tools, n)
        configured == \E i \in 1..Len(config) : config[i] = n
    IN
    CASE connection /\ tool_set -> "Ready"
      [] connection /\ ~tool_set -> "Degraded"
      [] ~connection /\ ~tool_set /\ TaskRunning(n) -> "Connecting"
      [] configured /\ ~connection /\ ~TaskRunning(n) -> "Disconnected"
      [] OTHER -> "Unknown"

\* C25 as stated: once the cog is loaded, the status command gives every
\* server one status, the one of the claim's table.
C25_OneStatusPerServer ==
    cog = "loaded" =>
      \A n \in AllServerNames :
        /\ n \in DOMAIN McpList.lines
        /\ McpList.lines[n] = ClaimedStatus(n)

\* C25, amended: when some server has a connection or a tool list, the
\* command gives every configured or registered server one status, the one
\* of the claim's table; when no server has either, it gives no status per
\* server but one sentence: none configured when there is no supervisor task,
\* none connected when every task has ended, connecting otherwise.
C25_StatusUnlessRegistryEmpty ==
    IF mcp_connections # <<>> \/ mcp_tools # <<>>
    THEN /\ McpList.overall = "-"
         /\ DOMAIN McpList.lines = AllServerNames
         /\ \A n \in AllServerNames : McpList.lines[n] = ClaimedStatus(n)
    ELSE /\ DOMAIN McpList.lines = {}
         /\ McpList.overall =
              (CASE \A n \in Servers : connection_tasks[n] = NoTask ->
                      "No MCP servers are configured"
                 [] (\E n \in Servers : connection_tasks[n] # NoTask)
                      /\ (\A n \in Servers : connection_tasks[n] # NoTask =>
                            task[connection_tasks[n]].pc = "done") ->
                      "none are currently connected"
                 [] OTHER -> "attempting to connect/reconnect")

\* s1 is connected with its tools while s2, after a failed attempt, waits to
\* reconnect: the command says Ready for s1 and Connecting for s2
C25_Witness ==
    /\ DOMAIN McpList.lines = {"s1", "s2"}
    /\ McpList.lines["s1"] = "Ready"
    /\ McpList.lines["s2"] = "Connecting"
    /\ \E t \in TaskIds : task[t].name = "s2" /\ task[t].pc = "backoff"
                            /\ connection_tasks["s2"] = t

\* the error dicts execute_tool builds
ErrorKinds ==
    {"NoServersConnected", "Unavailable", "ClientMismatch", "NotFound",
     "ToolReportedError", "Timeout", "ConnectionError", "UnexpectedError"}

\* C26: however a call of execute_tool ends (the tool not resolved, the
\* invocation returning with or without an error code, timing out, failing
\* with a connection error or with any other exception), it ends by
\* returning: a ToolInvocationResult when, and only when, the invocation
\* returned one without a non-zero error code, an error dict otherwise.
C26_ExecuteToolAlwaysReturns ==
    last.outcome # "none" =>
      /\ last.result.kind \in {"ToolInvocationResult"} \cup ErrorKinds
      /\ (last.result.kind = "ToolInvocationResult") =
           (last.outcome = "Returned" /\ last.response.code \in {None, Some(0)})
      /\ last.result.kind = "ToolInvocationResult" => last.result = last.response
      /\ last.outcome = "Unexpected" => last.result = ErrorDict("UnexpectedError")
      /\ last.outcome = "ConnectionFault" => last.result = ErrorDict("ConnectionError")
      /\ last.outcome = "Timeout" => last.result = ErrorDict("Timeout")
      /\ last.outcome = "unresolved" =>
           last.result.kind \in {"NoServersConnected", "Unavailable", "ClientMismatch",
                                 "NotFound"}

\* an invocation ended with an exception that is neither a timeout nor a
\* connection error, and the call returned an error dict; the registry kept
\* the entry of the server that was called
C26_Witness ==
    /\ last.outcome = "Unexpected"
    /\ last.result = ErrorDict("UnexpectedError")
    /\ Has(mcp_connections, last.server)

TextBlock(text) == Some(PyDict([type |-> "text", text |-> text]))

\* C27: what is kept and sent for a tool call that went through execute_tool.
\* When the invocation returned without a non-zero error code: the text of a
\* text block, as it is ("42" for the int 42); the fixed sentence for a
\* content of None; a str as it is, "42" for the int 42, "True" for the bool
\* True.  In every other case, a non-zero error code among them, what
\* execute_tool returned is an error dict, and its text follows 'Tool Error'.
C27_FormattedToolResult ==
    \A c \in Callers :
      (turn[c].pc = "tool_send" /\ last.outcome # "none") =>
        LET r == last.response
            cur == turn[c].cur
        IN
        IF last.outcome = "Returned" /\ r.code \in {None, Some(0)}
        THEN /\ last.result = r
             /\ r.content = None => cur = <<"text", NoContentSentence>>
             /\ r.content = TextBlock(Some(PyStr("42"))) => cur = <<"text", "42">>
             /\ r.content = TextBlock(Some(PyInt(42))) => cur = <<"text", "42">>
             /\ r.content = Some(PyStr("x")) => cur = <<"text", "x">>
             /\ r.content = Some(PyStr("")) => cur = <<"text", "">>
             /\ r.content = Some(PyInt(42)) => cur = <<"text", "42">>
             /\ r.content = Some(PyBool(TRUE)) => cur = <<"text", "True">>
        ELSE /\ last.result.kind \in ErrorKinds
             /\ cur = <<"Tool Error", last.result.kind>>
             /\ last.outcome = "Returned" => last.result.kind = "ToolReportedError"

\* the tool returned the text block {type: text, text: "42"} with error code
\* 0, and "42" is what is sent
C27_Witness ==
    \E c \in Callers :
      /\ turn[c].pc = "tool_send"
      /\ last.outcome = "Returned"
      /\ last.response = ToolInvocationResult(Some(0), TextBlock(Some(PyStr("42"))))
      /\ turn[c].cur = <<"text", "42">>

\* the schemas chat_params carries, none when it has no tools key
ToolsOf(params) == IF "tools" \in DOMAIN params THEN params.tools ELSE <<>>

\* the places (server, position in its tool list) at which a server that has
\* a connection publishes a tool named x
PublishedAt(x) ==
    {<<n, i>> \in Servers \X (1..2) :
       /\ Has(mcp_connections, n)
       /\ Has(mcp_tools, n)
       /\ i <= Len(Get(mcp_tools, n))
       /\ Get(mcp_tools, n)[i] = x}

\* C28: when a turn builds the parameters of its first backend call, the
\* schemas are those of the named tools that servers with a connection
\* publish, one for each place a name is published at, none for the nameless
\* tool, in the order of the connections and of the tool lists; and the call
\* carries tools, with tool_choice 'auto', exactly when there is a schema.
C28_SchemaSet ==
    [][\A c \in Callers :
         (turn[c].pc = "idle" /\ turn'[c].pc = "llm") =>
           LET params == turn'[c].chat_params
               tools == ToolsOf(params)
               order == [i \in 1..Len(mcp_connections) |-> mcp_connections[i][1]]
           IN
           /\ ("tools" \in DOMAIN params) = (tools # <<>>)
           /\ ("tool_choice" \in DOMAIN params) = (tools # <<>>)
           /\ tools # <<>> => params.tool_choice = "auto"
           /\ \A i \in 1..Len(tools) :
                tools[i].type = "function" /\ tools[i].name # ""
           /\ \A x \in ToolNames :
                Cardinality({i \in 1..Len(tools) : tools[i].name = x})
                  = Cardinality(PublishedAt(x))
           /\ Len(tools) <= 3
           /\ order = <<"s1">> => tools = <<OpenAITool("ta"), OpenAITool("tb")>>
           /\ order = <<"s2">> => tools = <<OpenAITool("tb")>>
           /\ order = <<"s1", "s2">> =>
                tools = <<OpenAITool("ta"), OpenAITool("tb"), OpenAITool("tb")>>
           /\ order = <<"s2", "s1">> =>
                tools = <<OpenAITool("tb"), OpenAITool("ta"), OpenAITool("tb")>>
           /\ order = <<>> => tools = <<>>]_vars

\* s2 connected before s1: the call carries the schema of s2's named tool,
\* then those of s1's two tools, and tool_choice 'auto'
C28_Witness ==
    \E c \in Callers :
      /\ turn[c].pc = "llm"
      /\ ToolsOf(turn[c].chat_params)
           = <<OpenAITool("tb"), OpenAITool("ta"), OpenAITool("tb")>>
      /\ turn[c].chat_params.tool_choice = "auto"
      /\ Get(mcp_tools, "s2") = <<"", "tb">>

\* C29: a supervisor task ends only in a step it takes with the shutdown
\* event set or after it was cancelled; an attempt that fails while the event
\* is not set leaves no registry entry of the server and takes the task to
\* the reconnect wait, which it leaves, the event still not set, only for
\* another attempt; and a task in the reconnect wait does get to its next
\* attempt, unless it ends.
C29_SupervisorKeepsTrying ==
    /\ [][\A t \in TaskIds :
            /\ (task[t].pc # "done" /\ task'[t].pc = "done") =>
                 (shutdown_event \/ task[t].pc = "cancelled")
            /\ (~shutdown_event /\ task'[t].fails = task[t].fails + 1) =>
                 /\ task[t].pc \in {"created", "listing", "backoff"}
                 /\ task'[t].pc = "backoff"
                 /\ ~Has(mcp_connections', task[t].name)
                 /\ ~Has(mcp_tools', task[t].name)
            /\ (~shutdown_event /\ task[t].pc = "listing" /\ task'[t] # task[t]) =>
                 \/ task'[t].pc = "ready"
                 \/ task'[t].pc = "backoff" /\ task'[t].fails = task[t].fails + 1
            /\ (~shutdown_event /\ task[t].pc = "backoff" /\ task'[t] # task[t]) =>
                 \/ task'[t].pc = "listing"
                 \/ task'[t].pc = "backoff" /\ task'[t].fails = task[t].fails + 1]_vars
    /\ \A t \in TaskIds, k \in 1..(MaxRetries + 1) :
         (task[t].pc = "backoff" /\ task[t].fails = k)
           ~> (task[t].pc \in {"listing", "done"} \/ task[t].fails > k)

\* after a failed attempt and the reconnect wait, the supervisor of s1 is in
\* its next attempt; no shutdown was signalled
C29_Witness ==
    /\ ~shutdown_event
    /\ \E t \in TaskIds :
         /\ task[t].name = "s1"
         /\ task[t].pc = "listing"
         /\ task[t].fails = 1
         /\ task[t].reconnect_delay = 30

\* C30: a server has a connection or a tool list in the registry only while
\* the task that supervises it waits in Ready: none before its first attempt
\* succeeds, none while it lists tools or waits to reconnect, none once it
\* has ended or there is no task for the server; and a step in which an
\* attempt fails or a task ends leaves no entry of the server.
C30_EntryOnlyWhileReady ==
    /\ [](\A n \in Servers :
            (Has(mcp_connections, n) \/ Has(mcp_tools, n)) =>
              /\ connection_tasks[n] # NoTask
              /\ task[connection_tasks[n]].name = n
              /\ task[connection_tasks[n]].pc = "ready")
    /\ [][\A t \in TaskIds :
            (task'[t] # task[t] /\ task'[t].pc \in {"backoff", "done"}) =>
              /\ ~Has(mcp_connections', task[t].name)
              /\ ~Has(mcp_tools', task[t].name)]_vars

\* s1 is published and its supervisor is in Ready, while the supervisor of s2
\* is in the reconnect wait after a failure and s2 has no entry
C30_Witness ==
    /\ Keys(mcp_connections) = {"s1"}
    /\ Keys(mcp_tools) = {"s1"}
    /\ task[connection_tasks["s1"]].pc = "ready"
    /\ connection_tasks["s2"] # NoTask
    /\ task[connection_tasks["s2"]].pc = "backoff"
    /\ task[connection_tasks["s2"]].fails = 1

\* the supervisor tasks of server n that have been created and have not ended
RunningFor(n) ==
    {t \in TaskIds : task[t].name = n /\ task[t].pc \notin {"unborn", "done"}}

\* C31: at most one supervisor task of each server has not ended, and it is
\* the one in the task table; cog_load creates a task for a name only if the
\* table has no task for it or that task has ended, and a cog_load that
\* follows a cog_load creates none.
C31_OneSupervisorPerServer ==
    /\ [](\A n \in Servers :
            /\ Cardinality(RunningFor(n)) <= 1
            /\ RunningFor(n) \subseteq {connection_tasks[n]})
    /\ [][\A t \in TaskIds :
            (task[t].pc = "unborn" /\ task'[t].pc # "unborn") =>
               /\ task'[t].pc = "created"
               /\ InList(config, task'[t].name)
               /\ NeedsTask(task'[t].name)
               /\ connection_tasks'[task'[t].name] = t
               /\ \A u \in TaskIds \ {t} : task'[u].name # task'[t].name \/ task'[u].pc = "done"]_vars
    /\ [][(cog = "loaded" /\ cog' = "loaded" /\ ~shutdown_event) =>
            /\ nextTask' = nextTask
            /\ connection_tasks' = connection_tasks]_vars

\* after load, unload and a second load the second generation of tasks runs,
\* the first has ended
C31_Witness ==
    /\ cog = "loaded"
    /\ \A n \in Servers :
         /\ connection_tasks[n] > 2
         /\ task[connection_tasks[n]].pc \in {"listing", "ready"}
         /\ \E t \in TaskIds : t # connection_tasks[n] /\ task[t].name = n /\ task[t].pc = "done"

\* C32: the step in which a fault reaches the outermost handler of a turn and
\* the step in which that turn then returns change neither the registries
\* nor any supervisor nor the task table nor the shutdown event, and leave
\* every channel with the list it had, entry for entry; the turn that
\* caught a fault can return, and returns with its locals gone; and whenever
\* a caller is idle a turn can be started for it on every channel (as long as
\* the bound on the turns started allows).
C32_FaultCaughtAtTurnBoundary ==
    /\ [][\A c \in Callers :
            (turn'[c] # turn[c] /\ "unhandled" \in {turn[c].pc, turn'[c].pc}) =>
               /\ UNCHANGED <<registry, task, connection_tasks, shutdown_event, cog, call>>
               /\ message_history' = message_history
               /\ \A ch \in Channels :
                    message_history[ch] # NoList =>
                       lists'[message_history[ch]] = lists[message_history[ch]]
               /\ turn[c].pc = "unhandled" => turn'[c] = NewTurn
               /\ \A d \in Callers \ {c} : turn'[d] = turn[d]]_vars
    /\ [](\A c \in Callers : turn[c].pc = "unhandled" => ENABLED UnhandledSent(c))
    /\ [](\A c \in Callers, ch \in Channels :
            (turn[c].pc = "idle" /\ started < MaxTurns) =>
               ENABLED TurnStart(c, ch, MaxTurns, "False"))

\* s1 is connected; the first turn on ch1 asked for a tool and ended in the
\* outermost handler, so that its tool call has no entry; the next turn on
\* ch1 was served and its answer is the last entry
C32_Witness ==
    /\ Keys(mcp_connections) = {"s1"}
    /\ message_history["ch1"] # NoList
    /\ LET h == Stored("ch1") IN
       /\ Len(h) = 5
       /\ h[3].role = "assistant" /\ h[3].calls # <<>>
       /\ h[4].role = "user" /\ h[4].turn # h[3].turn
       /\ h[5].role = "assistant" /\ h[5].turn = h[4].turn
    /\ turn["c1"].pc = "idle"

\* C33: when an invocation ends, a connection published under its server's
\* name that is not the client the invocation was started on stays in the
\* registry, and so does the tool set published with it.
C33_FaultSparesNewerConnection ==
    [][\A c \in Callers :
         (/\ Finishes(c)
          /\ Has(mcp_connections, call[c].server)
          /\ Get(mcp_connections, call[c].server) # call[c].client) =>
            /\ Has(mcp_connections', call[c].server)
            /\ Get(mcp_connections', call[c].server) = Get(mcp_connections, call[c].server)
            /\ Has(mcp_tools', call[c].server)]_vars

\* C34: the list a turn in flight holds as its channel_history is the one
\* stored in message_history under the turn's channel, and when the turn has
\* appended the follow-up answer and returned, that answer is an entry of the
\* stored list.
C34_AppendsReachStoredHistory ==
    /\ [](\A c \in Callers :
            InFlight(c) => turn[c].channel_history = message_history[turn[c].channel])
    /\ [][\A c \in Callers :
            (turn[c].pc = "followup_send" /\ turn'[c].pc = "idle") =>
               InList(lists'[message_history'[turn[c].channel]],
                      AssistantMessage(turn[c].serial, turn[c].content, <<>>))]_vars

\* the tool entries that answer the assistant message at place i of h stand
\* right behind it: one for each of its tool calls, with the id of the call,
\* and no further tool entry behind them
Answered(h, i) ==
    LET n == Len(h[i].calls) IN
    /\ i + n <= Len(h)
    /\ \A k \in 1..n :
         Cardinality({j \in (i + 1)..(i + n) :
                        h[j].role = "tool" /\ h[j].tool_call_id = h[i].calls[k]}) = 1
    /\ i + n < Len(h) => h[i + n + 1].role # "tool"

\* the tool entry at place j of h stands behind the assistant message that
\* asked for it, with nothing but tool entries of that message between them
Requested(h, j) ==
    \E i \in 1..(j - 1) :
       /\ h[i].role = "assistant"
       /\ j - i <= Len(h[i].calls)
       /\ \E k \in 1..Len(h[i].calls) : h[i].calls[k] = h[j].tool_call_id

WellPaired(h) ==
    \A i \in 1..Len(h) :
       /\ h[i].role = "assistant" => Answered(h, i)
       /\ h[i].role = "tool" => Requested(h, i)

\* C35: the list a turn passes to chat.completions.create, at its first call
\* and at its follow-up call, is well paired.
C35_HistorySentIsWellPaired ==
    [][\A c \in Callers :
         (turn'[c].pc \in {"llm", "followup"} /\ turn'[c].pc # turn[c].pc) =>
            WellPaired(lists'[turn'[c].channel_history])]_vars

\* C36: while the shutdown event is set no step adds a key to either
\* registry, and a step a supervisor takes out of list_tools with the event
\* set leaves both registries without an entry of its server.
C36_NoEntryPublishedAfterShutdown ==
    /\ [][shutdown_event =>
            /\ Keys(mcp_connections') \subseteq Keys(mcp_connections)
            /\ Keys(mcp_tools') \subseteq Keys(mcp_tools)]_vars
    /\ [][\A t \in TaskIds :
            (shutdown_event /\ task[t].pc = "listing" /\ task'[t] # task[t]) =>
               /\ ~Has(mcp_connections', task[t].name)
               /\ ~Has(mcp_tools', task[t].name)]_vars

\* cog_unload waits in its grace period, the listing of s1 is in flight and
\* can return its tools, while s2, published before the signal, has not been
\* cleaned up yet
C36_Witness ==
    /\ shutdown_event
    /\ cog = "unload_grace"
    /\ \E t \in TaskIds :
         /\ task[t].name = "s1"
         /\ task[t].pc = "listing"
         /\ ENABLED SupListOk(t)
    /\ Keys(mcp_connections) = {"s2"}

\* C37: a server the status command reports as Connecting has a supervisor
\* that is about to connect, is suspended in list_tools or waits to
\* reconnect; in particular its supervisor is not idle in the Ready wait.
C37_ConnectingMeansConnecting ==
    \A n \in DOMAIN McpList.lines :
       McpList.lines[n] = "Connecting" =>
          task[connection_tasks[n]].pc \in {"created", "listing", "cancelled", "backoff"}

\* the supervisor t has published the connection and the tools of its server
HasPublished(t) ==
    /\ task[t].pc = "ready"
    /\ Has(mcp_connections, task[t].name)
    /\ Has(mcp_tools, task[t].name)

\* C38: a cog_load that follows a completed cog_unload clears the shutdown
\* event and creates a new supervisor task for every configured server; a
\* supervisor that starts with the event clear connects instead of ending;
\* and every supervisor created while the event is clear publishes the
\* connection and the tools of its server, unless cog_unload is called again
\* first (the server is reachable: list_tools fails at most MaxRetries times).
C38_ReloadAfterUnload ==
    /\ [][(cog = "unloaded" /\ cog' = "loaded") =>
            /\ ~shutdown_event'
            /\ \A i \in 1..Len(config) :
                 /\ connection_tasks'[config[i]] # NoTask
                 /\ task[connection_tasks'[config[i]]].pc = "unborn"
                 /\ task'[connection_tasks'[config[i]]].pc = "created"
                 /\ task'[connection_tasks'[config[i]]].name = config[i]]_vars
    /\ [][\A t \in TaskIds :
            (task[t].pc = "created" /\ ~shutdown_event /\ task'[t] # task[t]) =>
               task'[t].pc \in {"listing", "backoff"}]_vars
    /\ \A t \in TaskIds :
         (task[t].pc = "created" /\ ~shutdown_event) ~> (HasPublished(t) \/ shutdown_event)

\* the supervisors of the first cog_load have ended in a cog_unload, and the
\* supervisors of the cog_load after it have published both servers again
C38_Witness ==
    /\ cog = "loaded"
    /\ ~shutdown_event
    /\ \A t \in TaskIds : t <= 2 => task[t].pc = "done"
    /\ \A n \in Servers :
         /\ connection_tasks[n] > 2
         /\ HasPublished(connection_tasks[n])
         /\ Get(mcp_connections, n) = connection_tasks[n]

====
